---- MODULE Spec2Model ----
(***************************************************************************)
(* ironPad backend: the in-memory file lock manager                        *)
(* (backend/src/services/locks.rs), the WebSocket session handler with its *)
(* broadcast hub (backend/src/websocket.rs), atomic file writes, the file  *)
(* watcher, the version-control layer and startup.                         *)
(*                                                                         *)
(* SpecLocks  the lock manager called directly by concurrent tasks; every  *)
(*            method is split at the points where it takes the RwLock,     *)
(*            reads the table and writes the table.                        *)
(* SpecWs     WebSocket sessions: handle_socket, its two spawned tasks,    *)
(*            handle_client_message and the broadcast channel.             *)
(* SpecWsFair SpecWs with the handler and a pending broadcast always      *)
(*            scheduled again.                                             *)
(* SpecHub    the broadcast hub with any publisher, and the record of what *)
(*            was published and what each session was sent.                *)
(* SpecPeers  the sessions with that record.                               *)
(* SpecFrames the sessions with the reader taking frames off the socket.   *)
(* SpecFs     atomic_write (backend/src/services/filesystem.rs).           *)
(* SpecSave   atomic_write while the clock advances.                       *)
(* SpecWatch  the watcher's process_event (backend/src/watcher.rs).        *)
(* SpecGit    the version-control layer (backend/src/services/git.rs) and  *)
(*            its routes.                                                  *)
(* SpecBoot   startup (backend/src/main.rs) and the started server.        *)
(* SpecLog    get_log over the histories of a repository.                  *)
(***************************************************************************)
EXTENDS Integers, Sequences, FiniteSets, TLC

\* ---- bounds of the model ----
NumClients == 2
NumPaths == 2
NumTasks == 2
MaxTime == 1
ChannelCapacity == 1          \* broadcast::channel(100), scaled down

Clients == 1..NumClients      \* client ids (uuid strings in the code)
Paths == 1..NumPaths          \* file paths
Tasks == 1..NumTasks          \* concurrent callers of the lock manager
Times == 0..MaxTime           \* values Utc::now() may return

\* enum LockType
LockType == {"Editor", "TaskView"}

\* SpecHub: the number of messages handed to the hub in one behaviour
MaxPublished == 3

\* SpecFs: concurrent callers of atomic_write, and the length of what they write
NumWriters == 2
ContentLen == 2
Writers == 1..NumWriters
\* the path they write: calls on different paths use different temp files and
\* share nothing
FsPaths == {1}

\* SpecWatch: how far the clock runs, in seconds
MaxClock == 6

\* SpecGit: the number of commits made in one behaviour
MaxCommits == 2

VARIABLES
    locks,      \* FileLockManager.locks: the HashMap, as its set of LockInfo values
    guards,     \* guards of the tokio RwLock currently held: <<task, "r" | "w">>
    call,       \* per task: the lock manager call in progress (or Idle)
    ret,        \* the call that has just returned, with its return value (NoRet
                \* once another call has taken the lock)
    clients,    \* WsState.clients: the HashSet of connected client ids
    buffer,     \* WsState.tx: the events the broadcast channel still retains
    rx,         \* per session: unread events of its broadcast::Receiver (NoRx: none)
    handler,    \* per session: position of handle_socket
    send_task,  \* per session: state of the spawned forwarding task
    recv_task,  \* per session: state of the spawned reading task
    released,   \* per session: released_paths not yet broadcast by the teardown
    published,  \* every message handed to WsState::broadcast so far, in order
    sent,       \* per session: the messages written to its socket, in order
    since,      \* per session: how many messages had been published when it subscribed
    file,       \* per path: the file at that path (Absent, or its data)
    temp,       \* per path: the hidden sibling ".{file_name}.tmp" of that path
    wcall,      \* per writer: the atomic_write call in progress, or how it returned
    data_dir,   \* config::DATA_DIR, a string (strings are sequences of characters)
    clock,      \* the monotonic clock behind Instant::now(), in seconds
    saves,      \* watcher::RECENT_SAVES: the HashMap, as its set of (path, Instant) entries
    handled,    \* the event process_event has just handled, with the message it
                \* broadcast (NoEvent once time has passed or a marker was set)
    main,       \* the position of main (main.rs)
    watcher,    \* the watcher: not started, failed to start, or its consumer running
    root,       \* whether the data directory exists
    auto_commit, \* whether the auto-commit task has been spawned
    worktree,   \* per file of the data directory: its content (Missing: no file)
    repo,       \* the git repository in the data directory (NoRepo: none)
    gret,       \* the version-control call that has just returned, with its
                \* result (NoGitRet once the data directory has changed)
    inbound     \* the frame a reader has taken off its socket last, and whose
                \* reader it was (NoFrame: none yet)

apiVars == <<guards, call, ret>>
\* the record of the hub's traffic; only SpecHub and SpecPeers keep it
hubLog == <<published, sent, since>>
wsVars == <<clients, buffer, rx, handler, send_task, recv_task, released, hubLog>>
bootVars == <<main, watcher, root, auto_commit>>
gitVars == <<worktree, repo, gret>>
netVars == <<inbound>>
sysVars == <<bootVars, gitVars, netVars>>
fsVars == <<file, temp, wcall>>
outsideFs == <<locks, apiVars, wsVars, sysVars>>
watchVars == <<data_dir, clock, saves, handled>>
vars == <<locks, guards, call, ret, clients, buffer, rx, handler, send_task, recv_task, released,
          hubLog, fsVars, watchVars, sysVars>>

\* ---- HashMap<String, LockInfo> ----
\* struct LockInfo
LockInfo == [path : Paths, client_id : Clients, lock_type : LockType, acquired_at : Times]

\* HashMap::get: Option<&LockInfo> as a set with at most one element
Get(m, p) == {l \in m : l.path = p}

\* a faulty insert that keeps the entry already stored under the key
InsertKeepOld(m, info) == m \cup {info}

\* HashMap::insert: replaces the value stored under the key
Insert(m, info) == {l \in m : l.path # info.path} \cup {info}

\* a faulty remove that clears the map
RemoveEverything(m, p) == {}

\* HashMap::remove
Remove(m, p) == {l \in m : l.path # p}

\* ---- return values ----
Ok(info) == [tag |-> "Ok", lock |-> info]
OkUnit == [tag |-> "Ok"]
AlreadyLocked(e) == [tag |-> "AlreadyLocked", holder |-> e.client_id, lock_type |-> e.lock_type]
NotLocked == [tag |-> "NotLocked"]
NotOwner == [tag |-> "NotOwner"]
SomeLock(l) == [tag |-> "Some", lock |-> l]
NoneLock == [tag |-> "None"]
PathList(s) == [tag |-> "Paths", paths |-> s]

Idle == [pc |-> "idle"]
NoRet == [op |-> "none"]

\* every ordering of a finite set: a HashMap iterates in an arbitrary order
Range(s) == {s[i] : i \in 1..Len(s)}
Orderings(S) == {s \in [1..Cardinality(S) -> S] : Range(s) = S}

\* ---- tokio::sync::RwLock ----
\* a faulty write() that excludes nobody
CanWriteShared(g) == TRUE

\* write().await returns once no other guard is held
CanWrite(g) == g = {}

\* read().await returns once no write guard is held
CanRead(g) == \A x \in g : x[2] = "r"

\* ---- FileLockManager, method bodies ----
\* the comparison left out: nobody is ever in the way
HeldByNobody(existing, c) == {}

\* the comparison dropped: whoever holds the lock is in the way
HeldByAny(existing, c) == existing

\* the comparison inverted
HeldBySelf(existing, c) == {e \in existing : e.client_id = c}

\* `existing.client_id != client_id` on the result of locks.get(path)
HeldByOther(existing, c) == {e \in existing : e.client_id # c}

\* the LockInfo built by acquire
NewLock(p, c, k, now) == [path |-> p, client_id |-> c, lock_type |-> k, acquired_at |-> now]

\* the filter on the owner left out
AllPaths(m, c) == {l.path : l \in m}

\* the keys release_all_for_client collects
OwnedPaths(m, c) == {l.path : l \in {x \in m : x.client_id = c}}

\* the table after release_all_for_client's removal loop
RemoveAll(m, ps) == {l \in m : l.path \notin ps}

\* a call returns: its value is recorded and its guard dropped
Return(t, r) ==
    /\ ret' = r
    /\ call' = [call EXCEPT ![t] = Idle]
    /\ guards' = {g \in guards : g[1] # t}

\* acquire, line 65: `self.locks.write().await`
AcquireEnter(t, p, c, k) ==
    /\ call[t] = Idle
    /\ CanWrite(guards)
    /\ guards' = guards \cup {<<t, "w">>}
    /\ call' = [call EXCEPT ![t] =
            [pc |-> "acquire_check", path |-> p, client_id |-> c, lock_type |-> k]]
    /\ ret' = NoRet
    /\ UNCHANGED locks
    /\ UNCHANGED wsVars
    /\ UNCHANGED <<fsVars, watchVars, sysVars>>

\* acquire, lines 68-76: the check of the existing entry
AcquireCheck(t) ==
    /\ call[t].pc = "acquire_check"
    /\ LET a == call[t]
           other == HeldByOther(Get(locks, a.path), a.client_id)
       IN IF other # {}
          THEN /\ Return(t, [op |-> "acquire", path |-> a.path, client_id |-> a.client_id,
                             lock_type |-> a.lock_type,
                             value |-> AlreadyLocked(CHOOSE e \in other : TRUE)])
               /\ UNCHANGED locks
          ELSE /\ call' = [call EXCEPT ![t].pc = "acquire_insert"]
               /\ UNCHANGED <<locks, guards, ret>>
    /\ UNCHANGED wsVars
    /\ UNCHANGED <<fsVars, watchVars, sysVars>>

\* acquire, lines 78-86: build the LockInfo, insert it, return it
AcquireInsert(t) ==
    /\ call[t].pc = "acquire_insert"
    /\ \E now \in Times :
        LET a == call[t]
            lock_info == NewLock(a.path, a.client_id, a.lock_type, now)
        IN /\ locks' = Insert(locks, lock_info)
           /\ Return(t, [op |-> "acquire", path |-> a.path, client_id |-> a.client_id,
                         lock_type |-> a.lock_type, value |-> Ok(lock_info)])
    /\ UNCHANGED wsVars
    /\ UNCHANGED <<fsVars, watchVars, sysVars>>

\* release, line 91: `self.locks.write().await`
ReleaseEnter(t, p, c) ==
    /\ call[t] = Idle
    /\ CanWrite(guards)
    /\ guards' = guards \cup {<<t, "w">>}
    /\ call' = [call EXCEPT ![t] = [pc |-> "release_check", path |-> p, client_id |-> c]]
    /\ ret' = NoRet
    /\ UNCHANGED locks
    /\ UNCHANGED wsVars
    /\ UNCHANGED <<fsVars, watchVars, sysVars>>

\* release, lines 93-96 and 99-101: the two error returns
ReleaseCheck(t) ==
    /\ call[t].pc = "release_check"
    /\ LET a == call[t]
           existing == Get(locks, a.path)
           r(v) == [op |-> "release", path |-> a.path, client_id |-> a.client_id, value |-> v]
       IN IF existing = {}
          THEN Return(t, r(NotLocked)) /\ UNCHANGED locks
          ELSE IF HeldByOther(existing, a.client_id) # {}
          THEN Return(t, r(NotOwner)) /\ UNCHANGED locks
          ELSE /\ call' = [call EXCEPT ![t].pc = "release_remove"]
               /\ UNCHANGED <<locks, guards, ret>>
    /\ UNCHANGED wsVars
    /\ UNCHANGED <<fsVars, watchVars, sysVars>>

\* release, lines 97-98: remove the entry and return Ok(())
ReleaseRemove(t) ==
    /\ call[t].pc = "release_remove"
    /\ LET a == call[t]
       IN /\ locks' = Remove(locks, a.path)
          /\ Return(t, [op |-> "release", path |-> a.path, client_id |-> a.client_id,
                        value |-> OkUnit])
    /\ UNCHANGED wsVars
    /\ UNCHANGED <<fsVars, watchVars, sysVars>>

\* is_locked_by_other, lines 111-120: one read() section holding a single lookup
IsLockedByOther(t, p, c) ==
    /\ call[t] = Idle
    /\ CanRead(guards)
    /\ LET other == HeldByOther(Get(locks, p), c)
       IN ret' = [op |-> "is_locked_by_other", path |-> p, client_id |-> c,
                  value |-> IF other # {} THEN SomeLock(CHOOSE l \in other : TRUE)
                                          ELSE NoneLock]
    /\ UNCHANGED <<locks, guards, call>>
    /\ UNCHANGED wsVars
    /\ UNCHANGED <<fsVars, watchVars, sysVars>>

\* release_all_for_client, line 124: `self.locks.write().await`
ReleaseAllEnter(t, c) ==
    /\ call[t] = Idle
    /\ CanWrite(guards)
    /\ guards' = guards \cup {<<t, "w">>}
    /\ call' = [call EXCEPT ![t] = [pc |-> "release_all_collect", client_id |-> c]]
    /\ ret' = NoRet
    /\ UNCHANGED locks
    /\ UNCHANGED wsVars
    /\ UNCHANGED <<fsVars, watchVars, sysVars>>

\* release_all_for_client, lines 125-129: collect the client's paths
ReleaseAllCollect(t) ==
    /\ call[t].pc = "release_all_collect"
    /\ \E order \in Orderings(OwnedPaths(locks, call[t].client_id)) :
        call' = [call EXCEPT ![t] = [pc |-> "release_all_remove",
                    client_id |-> call[t].client_id, paths_to_remove |-> order]]
    /\ UNCHANGED <<locks, guards, ret>>
    /\ UNCHANGED wsVars
    /\ UNCHANGED <<fsVars, watchVars, sysVars>>

\* release_all_for_client, lines 131-135: remove them and return the list
ReleaseAllRemove(t) ==
    /\ call[t].pc = "release_all_remove"
    /\ LET a == call[t]
       IN /\ locks' = RemoveAll(locks, Range(a.paths_to_remove))
          /\ Return(t, [op |-> "release_all_for_client", client_id |-> a.client_id,
                        value |-> PathList(a.paths_to_remove)])
    /\ UNCHANGED wsVars
    /\ UNCHANGED <<fsVars, watchVars, sysVars>>

\* ---- FileLockManager, whole calls ----
\* Each method runs inside one write() section of the RwLock, so the session
\* handler's calls are taken as single steps: [locks: table after, value: result].

\* FileLockManager::acquire
acquire(m, p, c, k, now) ==
    LET other == HeldByOther(Get(m, p), c)
        lock_info == NewLock(p, c, k, now)
    IN IF other # {}
       THEN [locks |-> m, value |-> AlreadyLocked(CHOOSE e \in other : TRUE)]
       ELSE [locks |-> Insert(m, lock_info), value |-> Ok(lock_info)]

\* FileLockManager::release
release(m, p, c) ==
    LET existing == Get(m, p)
    IN IF existing = {} THEN [locks |-> m, value |-> NotLocked]
       ELSE IF HeldByOther(existing, c) # {} THEN [locks |-> m, value |-> NotOwner]
       ELSE [locks |-> Remove(m, p), value |-> OkUnit]

\* a release_all_for_client that frees the locks but reports none of them
release_all_unreported(m, c, order) ==
    [locks |-> {l \in m : l.client_id # c}, value |-> [tag |-> "Paths", paths |-> << >>]]

\* FileLockManager::release_all_for_client; order: the HashMap's iteration order
release_all_for_client(m, c, order) ==
    [locks |-> RemoveAll(m, Range(order)), value |-> PathList(order)]

\* ---- WsMessage and the broadcast channel ----
FileLocked(p, c, w) == [type |-> "FileLocked", path |-> p, client_id |-> c, lock_type |-> w]
FileUnlocked(p) == [type |-> "FileUnlocked", path |-> p]
Connected(c) == [type |-> "Connected", client_id |-> c]
FileCreated(p) == [type |-> "FileCreated", path |-> p]
FileModified(p) == [type |-> "FileModified", path |-> p]
FileDeleted(p) == [type |-> "FileDeleted", path |-> p]

\* the lock_type strings a LockFile request may carry
WireKinds == {"editor", "task_view", "other"}

\* a parse that takes every kind it does not know for an editor lock
ParseLockTypeLenient(w) ==
    IF w = "task_view" THEN {"TaskView"} ELSE {"Editor"}

\* handle_client_message: lock_type.as_str() to Option<LockType>, as a set
ParseLockType(w) ==
    IF w = "editor" THEN {"Editor"} ELSE IF w = "task_view" THEN {"TaskView"} ELSE {}

\* handle_client_message: lock_info.lock_type to the string of the FileLocked event
LockTypeStr(k) == IF k = "Editor" THEN "editor" ELSE "task_view"

NoRx == -1
Min(a, b) == IF a < b THEN a ELSE b

Subscribed(r) == {s \in Clients : r[s] # NoRx}

\* the events still owed to some receiver: the channel keeps at most
\* ChannelCapacity of them, a receiver further behind has lagged
Retained(buf, r) ==
    LET n == IF Subscribed(r) = {} THEN 0
             ELSE Min(ChannelCapacity,
                      CHOOSE x \in {r[s] : s \in Subscribed(r)} :
                          \A y \in {r[s] : s \in Subscribed(r)} : y <= x)
    IN SubSeq(buf, Len(buf) - Min(n, Len(buf)) + 1, Len(buf))

\* a sender that waits until every receiver has room
SendBlocking(e) ==
    /\ \A s \in Subscribed(rx) : rx[s] < ChannelCapacity
    /\ rx' = [s \in Clients |-> IF rx[s] = NoRx THEN NoRx ELSE rx[s] + 1]
    /\ buffer' = IF Subscribed(rx) = {} THEN buffer ELSE Retained(Append(buffer, e), rx')

\* broadcast::Sender::send: with no receiver the value is dropped (an Err that
\* WsState::broadcast ignores); otherwise it is appended for every receiver
Send(e) ==
    /\ rx' = [s \in Clients |-> IF rx[s] = NoRx THEN NoRx
                                 ELSE Min(rx[s] + 1, ChannelCapacity + 1)]
    /\ buffer' = IF Subscribed(rx) = {} THEN buffer ELSE Retained(Append(buffer, e), rx')

\* the next event of receiver s (rx[s] in 1..ChannelCapacity)
NextEvent(s) == buffer[Len(buffer) - rx[s] + 1]

\* the receiver of s gives up n events (n = rx[s]: it is dropped)
Drop(s, new) ==
    /\ rx' = [rx EXCEPT ![s] = new]
    /\ buffer' = Retained(buffer, rx')

Running == [pc |-> "run"]
Ended == [pc |-> "end"]
NotSpawned == [pc |-> "none"]

\* a subscribe whose receiver starts at the oldest event the channel retains
ConnectReplays(s) ==
    /\ handler[s] = "new"
    /\ clients' = clients \cup {s}
    /\ rx' = [rx EXCEPT ![s] = Len(buffer)]
    /\ handler' = [handler EXCEPT ![s] = "subscribed"]
    /\ UNCHANGED <<locks, buffer, send_task, recv_task, released>>
    /\ UNCHANGED apiVars
    /\ UNCHANGED <<fsVars, watchVars, sysVars>>

\* ---- handle_socket ----
\* lines 106-119: a fresh uuid is inserted into state.clients, then
\* state.tx.subscribe()
Connect(s) ==
    /\ handler[s] = "new"
    /\ clients' = clients \cup {s}
    /\ rx' = [rx EXCEPT ![s] = 0]
    /\ handler' = [handler EXCEPT ![s] = "subscribed"]
    /\ UNCHANGED <<locks, buffer, send_task, recv_task, released>>
    /\ UNCHANGED apiVars
    /\ UNCHANGED <<fsVars, watchVars, sysVars>>

\* the receiver is created when the tasks are spawned, after Connected was sent
SendConnectedThenSubscribe(s) ==
    /\ handler[s] = "subscribed"
    /\ handler' = [handler EXCEPT ![s] = "select"]
    /\ send_task' = [send_task EXCEPT ![s] = "run"]
    /\ recv_task' = [recv_task EXCEPT ![s] = Running]
    /\ Drop(s, 0)
    /\ UNCHANGED <<locks, clients, released>>
    /\ UNCHANGED apiVars
    /\ UNCHANGED <<fsVars, watchVars, sysVars>>

\* Connected goes through the hub instead of the session's own sender
SendConnectedToAll(s) ==
    /\ handler[s] = "subscribed"
    /\ Send(Connected(s))
    /\ handler' = [handler EXCEPT ![s] = "select"]
    /\ send_task' = [send_task EXCEPT ![s] = "run"]
    /\ recv_task' = [recv_task EXCEPT ![s] = Running]
    /\ UNCHANGED <<locks, clients, released>>
    /\ UNCHANGED apiVars
    /\ UNCHANGED <<fsVars, watchVars, sysVars>>

\* lines 122-157: Connected is sent to the peer (the result is ignored), then
\* both tasks are spawned and the handler waits in select!
SendConnected(s) ==
    /\ handler[s] = "subscribed"
    /\ handler' = [handler EXCEPT ![s] = "select"]
    /\ send_task' = [send_task EXCEPT ![s] = "run"]
    /\ recv_task' = [recv_task EXCEPT ![s] = Running]
    /\ UNCHANGED <<locks, clients, buffer, rx, released>>
    /\ UNCHANGED apiVars
    /\ UNCHANGED <<fsVars, watchVars, sysVars>>

\* the forwarder sends the event on without taking it off its receiver
ForwardOkNoAdvance(s) ==
    /\ send_task[s] = "run"
    /\ rx[s] \in 1..ChannelCapacity
    /\ UNCHANGED <<buffer, rx>>
    /\ UNCHANGED <<locks, clients, handler, send_task, recv_task, released>>
    /\ UNCHANGED apiVars
    /\ UNCHANGED <<fsVars, watchVars, sysVars>>

\* send_task, lines 131-136: rx.recv() yields an event and sender.send() succeeds
ForwardOk(s) ==
    /\ send_task[s] = "run"
    /\ rx[s] \in 1..ChannelCapacity
    /\ Drop(s, rx[s] - 1)
    /\ UNCHANGED <<locks, clients, handler, send_task, recv_task, released>>
    /\ UNCHANGED apiVars
    /\ UNCHANGED <<fsVars, watchVars, sysVars>>

\* send_task, lines 133-135: sender.send() fails, the loop breaks; rx is dropped
ForwardSendErr(s) ==
    /\ send_task[s] = "run"
    /\ rx[s] \in 1..ChannelCapacity
    /\ Drop(s, NoRx)
    /\ send_task' = [send_task EXCEPT ![s] = "end"]
    /\ UNCHANGED <<locks, clients, handler, recv_task, released>>
    /\ UNCHANGED apiVars
    /\ UNCHANGED <<fsVars, watchVars, sysVars>>

\* send_task, line 131: rx.recv() returns Err(Lagged), `while let Ok` ends the loop
ForwardLagged(s) ==
    /\ send_task[s] = "run"
    /\ rx[s] > ChannelCapacity
    /\ Drop(s, NoRx)
    /\ send_task' = [send_task EXCEPT ![s] = "end"]
    /\ UNCHANGED <<locks, clients, handler, recv_task, released>>
    /\ UNCHANGED apiVars
    /\ UNCHANGED <<fsVars, watchVars, sysVars>>

\* a reader that announces the lock whether or not acquire granted it
RecvLockFileAnnouncesAll(s, p, w) ==
    /\ recv_task[s] = Running
    /\ \E now \in Times :
        LET kind == ParseLockType(w)
            r == acquire(locks, p, s, CHOOSE k \in kind : TRUE, now)
        IN IF kind = {}
           THEN UNCHANGED <<locks, recv_task>>
           ELSE /\ locks' = r.locks
                /\ recv_task' = [recv_task EXCEPT ![s] =
                       [pc |-> "broadcast", event |-> FileLocked(p, s, w)]]
    /\ UNCHANGED <<clients, buffer, rx, handler, send_task, released>>
    /\ UNCHANGED apiVars
    /\ UNCHANGED <<fsVars, watchVars, sysVars>>

\* recv_task, lines 144-148 with handle_client_message lines 184-198: LockFile
RecvLockFile(s, p, w) ==
    /\ recv_task[s] = Running
    /\ \E now \in Times :
        LET kind == ParseLockType(w)
            r == acquire(locks, p, s, CHOOSE k \in kind : TRUE, now)
        IN IF kind = {}
           THEN UNCHANGED <<locks, recv_task>>
           ELSE /\ locks' = r.locks
                /\ recv_task' = [recv_task EXCEPT ![s] =
                       IF r.value.tag = "Ok"
                       THEN [pc |-> "broadcast",
                             event |-> FileLocked(r.value.lock.path, r.value.lock.client_id,
                                                  LockTypeStr(r.value.lock.lock_type))]
                       ELSE Running]
    /\ UNCHANGED <<clients, buffer, rx, handler, send_task, released>>
    /\ UNCHANGED apiVars
    /\ UNCHANGED <<fsVars, watchVars, sysVars>>

\* recv_task with handle_client_message lines 216-217: UnlockFile
RecvUnlockFile(s, p) ==
    /\ recv_task[s] = Running
    /\ LET r == release(locks, p, s)
       IN /\ locks' = r.locks
          /\ recv_task' = [recv_task EXCEPT ![s] =
                 IF r.value.tag = "Ok"
                 THEN [pc |-> "broadcast", event |-> FileUnlocked(p)]
                 ELSE Running]
    /\ UNCHANGED <<clients, buffer, rx, handler, send_task, released>>
    /\ UNCHANGED apiVars
    /\ UNCHANGED <<fsVars, watchVars, sysVars>>

\* handle_client_message lines 204-208 and 219: the event is broadcast
RecvBroadcast(s) ==
    /\ recv_task[s].pc = "broadcast"
    /\ Send(recv_task[s].event)
    /\ recv_task' = [recv_task EXCEPT ![s] = Running]
    /\ UNCHANGED <<locks, clients, handler, send_task, released>>
    /\ UNCHANGED apiVars
    /\ UNCHANGED <<fsVars, watchVars, sysVars>>

\* recv_task, lines 149-154 and 226-228: Pong, unparsable text, non-text frames
RecvIgnored(s) ==
    /\ recv_task[s] = Running
    /\ UNCHANGED <<locks, clients, buffer, rx, handler, send_task, recv_task, released>>
    /\ UNCHANGED apiVars
    /\ UNCHANGED <<fsVars, watchVars, sysVars>>

\* recv_task, lines 144 and 153: a Close frame, a transport error or end of stream
RecvEnd(s) ==
    /\ recv_task[s] = Running
    /\ recv_task' = [recv_task EXCEPT ![s] = Ended]
    /\ UNCHANGED <<locks, clients, buffer, rx, handler, send_task, released>>
    /\ UNCHANGED apiVars
    /\ UNCHANGED <<fsVars, watchVars, sysVars>>

\* ---- the frames of the socket and serde_json::from_str::<ClientMessage> ----
\* the text of a frame: not JSON at all, or a JSON object with its fields
NotJson == [json |-> FALSE]
LockFileText(p, w) == [json |-> TRUE, type |-> "lock_file", path |-> p, lock_type |-> w]
UnlockFileText(p) == [json |-> TRUE, type |-> "unlock_file", path |-> p]
PongText == [json |-> TRUE, type |-> "pong"]
\* a type that ClientMessage does not have, and a lock_file without lock_type
UnknownText == [json |-> TRUE, type |-> "subscribe"]
NoKindText(p) == [json |-> TRUE, type |-> "lock_file", path |-> p]

Text(t) == [kind |-> "Text", text |-> t]
Binary == [kind |-> "Binary"]
Ping == [kind |-> "Ping"]
Pong == [kind |-> "Pong"]
Close == [kind |-> "Close"]
NoFrame == [client |-> 0]

\* ClientMessage, #[serde(tag = "type")]
LockFile(p, w) == [type |-> "LockFile", path |-> p, lock_type |-> w]
UnlockFile(p) == [type |-> "UnlockFile", path |-> p]
PongMsg == [type |-> "Pong"]

\* from_str: Ok(ClientMessage) as a one-element set, Err as the empty set
from_str(t) ==
    IF ~t.json THEN {}
    ELSE IF t.type = "lock_file"
         THEN IF {"path", "lock_type"} \subseteq DOMAIN t
              THEN {LockFile(t.path, t.lock_type)} ELSE {}
    ELSE IF t.type = "unlock_file"
         THEN IF "path" \in DOMAIN t THEN {UnlockFile(t.path)} ELSE {}
    ELSE IF t.type = "pong" THEN {PongMsg}
    ELSE {}

\* handle_client_message(state, client_id, msg) up to the broadcast
handle_client_message(s, msg) ==
    IF msg.type = "LockFile"
    THEN \E now \in Times :
            LET kind == ParseLockType(msg.lock_type)
                r == acquire(locks, msg.path, s, CHOOSE k \in kind : TRUE, now)
            IN IF kind = {}
               THEN UNCHANGED <<locks, recv_task>>
               ELSE /\ locks' = r.locks
                    /\ recv_task' = [recv_task EXCEPT ![s] =
                           IF r.value.tag = "Ok"
                           THEN [pc |-> "broadcast",
                                 event |-> FileLocked(r.value.lock.path, r.value.lock.client_id,
                                                      LockTypeStr(r.value.lock.lock_type))]
                           ELSE Running]
    ELSE IF msg.type = "UnlockFile"
    THEN LET r == release(locks, msg.path, s)
         IN /\ locks' = r.locks
            /\ recv_task' = [recv_task EXCEPT ![s] =
                   IF r.value.tag = "Ok"
                   THEN [pc |-> "broadcast", event |-> FileUnlocked(msg.path)]
                   ELSE Running]
    ELSE UNCHANGED <<locks, recv_task>>

\* recv_task, lines 143-155: the reader takes a frame off the socket
Recv(s, frame) ==
    /\ recv_task[s] = Running
    /\ inbound' = [client |-> s, frame |-> frame]
    /\ IF frame.kind = "Text"
       THEN LET client_msg == from_str(frame.text)
            IN IF client_msg # {}
               THEN handle_client_message(s, CHOOSE m \in client_msg : TRUE)
               ELSE UNCHANGED <<locks, recv_task>>
       ELSE IF frame.kind = "Close"
       THEN /\ recv_task' = [recv_task EXCEPT ![s] = Ended]
            /\ UNCHANGED locks
       ELSE UNCHANGED <<locks, recv_task>>
    /\ UNCHANGED <<clients, buffer, rx, handler, send_task, released>>
    /\ UNCHANGED apiVars
    /\ UNCHANGED <<fsVars, watchVars, bootVars, gitVars>>

\* lines 160-163: select! returns when either JoinHandle completes; the other
\* handle is dropped, which detaches its task and leaves it running
SelectDone(s) ==
    /\ handler[s] = "select"
    /\ send_task[s] = "end" \/ recv_task[s] = Ended
    /\ handler' = [handler EXCEPT ![s] = "release"]
    /\ UNCHANGED <<locks, clients, buffer, rx, send_task, recv_task, released>>
    /\ UNCHANGED apiVars
    /\ UNCHANGED <<fsVars, watchVars, sysVars>>

\* line 167: release_all_for_client(&client_id)
TeardownRelease(s) ==
    /\ handler[s] = "release"
    /\ \E order \in Orderings(OwnedPaths(locks, s)) :
        LET r == release_all_for_client(locks, s, order)
        IN /\ locks' = r.locks
           /\ released' = [released EXCEPT ![s] = r.value.paths]
    /\ handler' = [handler EXCEPT ![s] = "broadcast"]
    /\ UNCHANGED <<clients, buffer, rx, send_task, recv_task>>
    /\ UNCHANGED apiVars
    /\ UNCHANGED <<fsVars, watchVars, sysVars>>

\* lines 168-170: one FileUnlocked per released path
TeardownBroadcast(s) ==
    /\ handler[s] = "broadcast"
    /\ released[s] # << >>
    /\ Send(FileUnlocked(Head(released[s])))
    /\ released' = [released EXCEPT ![s] = Tail(released[s])]
    /\ UNCHANGED <<locks, clients, handler, send_task, recv_task>>
    /\ UNCHANGED apiVars
    /\ UNCHANGED <<fsVars, watchVars, sysVars>>

\* the client id is removed while released paths are still unannounced
TeardownRemoveEarly(s) ==
    /\ handler[s] = "broadcast"
    /\ clients' = clients \ {s}
    /\ handler' = [handler EXCEPT ![s] = "done"]
    /\ UNCHANGED <<locks, buffer, rx, send_task, recv_task, released>>
    /\ UNCHANGED apiVars
    /\ UNCHANGED <<fsVars, watchVars, sysVars>>

\* lines 173-176: the client id is removed from state.clients
TeardownRemove(s) ==
    /\ handler[s] = "broadcast"
    /\ released[s] = << >>
    /\ clients' = clients \ {s}
    /\ handler' = [handler EXCEPT ![s] = "done"]
    /\ UNCHANGED <<locks, buffer, rx, send_task, recv_task, released>>
    /\ UNCHANGED apiVars
    /\ UNCHANGED <<fsVars, watchVars, sysVars>>

\* ---- strings and paths (std::path::Path, str) ----
\* a string is the sequence of its characters
Str_data == <<"d", "a", "t", "a">>
Str_archive == <<"a", "r", "c", "h", "i", "v", "e">>
Str_git == <<".", "g", "i", "t">>
Str_tmp == <<".", "t", "m", "p">>
Str_md == <<"m", "d">>
Slash == "/"
Backslash == "\\"
Dot == "."

\* n occurs in h at offset i (from 0)
OccursAt(h, n, i) == i + Len(n) <= Len(h) /\ SubSeq(h, i + 1, i + Len(n)) = n

\* str::find: the offsets at which n occurs in h, and the first of them
Offsets(h, n) == {i \in 0..Len(h) : OccursAt(h, n, i)}
Find(h, n) ==
    LET at == Offsets(h, n)
    IN CHOOSE i \in at : \A j \in at : i <= j

\* str::contains, str::starts_with, str::ends_with
Contains(h, n) == Offsets(h, n) # {}
StartsWith(h, n) == OccursAt(h, n, 0)
EndsWith(h, n) == Len(n) <= Len(h) /\ OccursAt(h, n, Len(h) - Len(n))

\* the position (from 1) of the last c in s, 0 if there is none
LastPos(s, c) ==
    LET at == {i \in 1..Len(s) : s[i] = c}
    IN IF at = {} THEN 0 ELSE CHOOSE i \in at : \A j \in at : j <= i

\* Path::file_name of a path that ends in a normal component
FileName(p) == SubSeq(p, LastPos(p, Slash) + 1, Len(p))

\* Path::extension, as a set: the part of the file name after its last dot;
\* none without a dot or when the only dot is the first character
Extension(p) ==
    LET n == FileName(p)
        d == LastPos(n, Dot)
    IN IF d <= 1 THEN {} ELSE {SubSeq(n, d + 1, Len(n))}

\* str::replace of one character, str::trim_start_matches of one character
Replace(s, a, b) == [i \in 1..Len(s) |-> IF s[i] = a THEN b ELSE s[i]]
RECURSIVE TrimStart(_, _)
TrimStart(s, c) == IF s # << >> /\ Head(s) = c THEN TrimStart(Tail(s), c) ELSE s

\* PathBuf::join
Join(dir, rel) == dir \o <<Slash>> \o rel

\* config::init_data_dir: {exe_dir}/data, or the value of IRONPAD_DATA_DIR
DefaultDataDir == <<"/", "a", "p", "p", "/", "d", "a", "t", "a">>
CustomDataDir == <<"/", "s", "r", "v", "/", "d", "o", "c", "s">>
DataDirs == {DefaultDataDir, CustomDataDir}

\* files under the data directory: a note, the temp file atomic_write uses for
\* it, a note in the archive directory, a note whose name begins like the
\* archive directory's, and a file in the repository metadata
NoteMd == <<"a", ".", "m", "d">>
NoteTmp == <<".", "a", ".", "m", "d", ".", "t", "m", "p">>
InArchive == <<"a", "r", "c", "h", "i", "v", "e", "/", "a", ".", "m", "d">>
ArchivedMd == <<"a", "r", "c", "h", "i", "v", "e", "d", ".", "m", "d">>
InGit == <<".", "g", "i", "t", "/", "a", ".", "m", "d">>
Files == {NoteMd, NoteTmp, InArchive, ArchivedMd, InGit}

\* ---- the marker table and the watcher (watcher.rs) ----
\* filesystem::normalize_path (services/filesystem.rs): the key atomic_write
\* registers its marker under
fs_normalize_path(path) ==
    LET stripped == IF Contains(path, Str_data)
                    THEN SubSeq(path, Find(path, Str_data) + 5 + 1, Len(path))
                    ELSE path
    IN TrimStart(Replace(stripped, Backslash, Slash), Slash)

\* watcher::normalize_path: the key process_event looks up, and the path of
\* the message it broadcasts
normalize_path(path) ==
    IF Contains(path, Str_data)
    THEN TrimStart(Replace(SubSeq(path, Find(path, Str_data) + 5 + 1, Len(path)),
                           Backslash, Slash), Slash)
    ELSE Replace(path, Backslash, Slash)

\* process_event: saves.retain(|_, t| t.elapsed().as_secs() < 5) and
\* saved_at.elapsed().as_secs() < 2
RetainSecs == 5
SuppressSecs == 2

\* mark_file_saved: saves.insert(path, Instant::now())
mark_file_saved(path) ==
    saves' = {m \in saves : m.path # path} \cup {[path |-> path, at |-> clock]}

\* notify::EventKind: Create, Modify, Remove, and Access for the kinds
\* process_event does not report (Any, Access, Other)
EventKinds == {"Create", "Modify", "Remove", "Access"}

\* DebouncedEvent.paths: one path, or the two paths of a rename (the rename
\* that ends an atomic write, and a note moved to the archive)
Renames == {<<NoteTmp, NoteMd>>, <<NoteMd, InArchive>>}
PathLists(dir) ==
    {<<Join(dir, f)>> : f \in Files}
        \cup {<<Join(dir, r[1]), Join(dir, r[2])>> : r \in Renames}
Events(dir) == [kind : EventKinds, paths : PathLists(dir)]

NoEvent == [kind |-> "None"]
NoMsg == [type |-> "None"]

\* process_event, lines 86-95, 102-110 and 112-118: the three filters
IsMd(p) == Extension(p) = {Str_md}
IsTempName(p) == StartsWith(FileName(p), <<Dot>>) /\ EndsWith(FileName(p), Str_tmp)
InSkippedDir(p) == Contains(p, Str_archive) \/ Contains(p, Str_git)

\* process_event, lines 133-147: the message for an event kind
Classify(kind, path_str) ==
    CASE kind = "Create" -> FileCreated(path_str)
      [] kind = "Modify" -> FileModified(path_str)
      [] kind = "Remove" -> FileDeleted(path_str)
      [] OTHER -> NoMsg

\* process_event, lines 124 and 126-130
Retain(sv, now) == {m \in sv : now - m.at < RetainSecs}
RecentlySaved(sv, key, now) == \E m \in sv : m.path = key /\ now - m.at < SuppressSecs

\* a process_event that reports the first path of the event, not the first
\* of the paths that passed the markdown filter
process_event_first_raw(event, sv, now) ==
    LET paths == SelectSeq(event.paths, IsMd)
    IN IF paths = << >> THEN [saves |-> sv, msg |-> NoMsg]
       ELSE IF \E i \in 1..Len(paths) : IsTempName(paths[i]) THEN [saves |-> sv, msg |-> NoMsg]
       ELSE IF \E i \in 1..Len(paths) : InSkippedDir(paths[i]) THEN [saves |-> sv, msg |-> NoMsg]
       ELSE LET path_str == normalize_path(event.paths[1])
                kept == Retain(sv, now)
            IN IF RecentlySaved(kept, path_str, now)
               THEN [saves |-> kept, msg |-> NoMsg]
               ELSE [saves |-> kept, msg |-> Classify(event.kind, path_str)]

\* process_event as a function of the event, the marker table and the time:
\* the table it leaves and the message it broadcasts (NoMsg: none)
process_event(event, sv, now) ==
    LET paths == SelectSeq(event.paths, IsMd)
    IN IF paths = << >> THEN [saves |-> sv, msg |-> NoMsg]
       ELSE IF \E i \in 1..Len(paths) : IsTempName(paths[i]) THEN [saves |-> sv, msg |-> NoMsg]
       ELSE IF \E i \in 1..Len(paths) : InSkippedDir(paths[i]) THEN [saves |-> sv, msg |-> NoMsg]
       ELSE LET path_str == normalize_path(paths[1])
                kept == Retain(sv, now)
            IN IF RecentlySaved(kept, path_str, now)
               THEN [saves |-> kept, msg |-> NoMsg]
               ELSE [saves |-> kept, msg |-> Classify(event.kind, path_str)]

\* a second of time passes
Tick ==
    /\ clock < MaxClock
    /\ clock' = clock + 1
    /\ handled' = NoEvent
    /\ UNCHANGED <<data_dir, saves>>
    /\ UNCHANGED <<locks, apiVars, wsVars, fsVars, sysVars>>

\* the documents the server saves with atomic_write
Documents == {NoteMd, ArchivedMd}

\* atomic_write(data_dir/f, _) begins, filesystem.rs lines 336-337:
\* mark_file_saved(&normalize_path(path))
MarkFileSaved(f) ==
    /\ mark_file_saved(fs_normalize_path(Join(data_dir, f)))
    /\ handled' = NoEvent
    /\ UNCHANGED <<data_dir, clock>>
    /\ UNCHANGED <<locks, apiVars, wsVars, fsVars, sysVars>>

\* start_watcher lines 51-55: the spawned task takes the next debounced event
\* and calls process_event, which broadcasts the message if there is one
ProcessEvent(event) ==
    /\ watcher = "running"
    /\ LET r == process_event(event, saves, clock)
       IN /\ saves' = r.saves
          /\ handled' = [kind |-> event.kind, paths |-> event.paths, msg |-> r.msg]
          /\ IF r.msg # NoMsg THEN Send(r.msg) ELSE UNCHANGED <<buffer, rx>>
    /\ UNCHANGED <<data_dir, clock>>
    /\ UNCHANGED <<locks, apiVars, fsVars, hubLog, sysVars>>
    /\ UNCHANGED <<clients, handler, send_task, recv_task, released>>

\* ---- atomic_write (services/filesystem.rs) ----
\* a path with no file, and a file with its data; synced: the data is what the
\* last sync_all forced to stable storage
Absent == [exists |-> FALSE]
NewFile == [exists |-> TRUE, data |-> << >>, synced |-> FALSE]

\* contents: &[u8] of writer w, and the byte a hole of a sparse file reads as
Bytes(w) == [i \in 1..ContentLen |-> w]
Hole == 0

NoCall == [pc |-> "idle"]
InCall(c) == c.pc \in {"create", "write", "sync", "rename"}

Max(a, b) == IF a > b THEN a ELSE b

\* write(2) of byte b at offset off
WriteAt(data, off, b) ==
    [i \in 1..Max(Len(data), off + 1) |->
        IF i = off + 1 THEN b ELSE IF i <= Len(data) THEN data[i] ELSE Hole]

\* the file a descriptor refers to keeps its identity when names move:
\* rename(temp, path) makes the temp file the file at path, and the file that
\* was at path loses its name
Renamed(at) == IF at = "temp" THEN "target" ELSE "orphan"

\* the path atomic_write is called with for p
TargetPath(p) == Join(data_dir, NoteMd)

\* an atomic_write that goes to the temp file without setting the marker
EnterUnmarked(w, p) ==
    /\ ~InCall(wcall[w])
    /\ UNCHANGED <<data_dir, clock, handled, saves>>
    /\ wcall' = [v \in Writers |->
          IF v = w
          THEN [pc |-> "create", path |-> p, off |-> 0, at |-> "none",
                raced |-> \E u \in Writers \ {w} : InCall(wcall[u]) /\ wcall[u].path = p]
          ELSE IF wcall[v].pc \notin {"idle", "err"} /\ wcall[v].path = p
               THEN [wcall[v] EXCEPT !.raced = TRUE]
               ELSE wcall[v]]
    /\ UNCHANGED <<file, temp>>

\* lines 325-337: parent, temp_name and temp_path are computed (every element
\* of Paths has a parent directory and a file name) and the marker is set
Enter(w, p) ==
    /\ ~InCall(wcall[w])
    /\ mark_file_saved(fs_normalize_path(TargetPath(p)))
    /\ UNCHANGED <<data_dir, clock, handled>>
    /\ wcall' = [v \in Writers |->
          IF v = w
          THEN [pc |-> "create", path |-> p, off |-> 0, at |-> "none",
                raced |-> \E u \in Writers \ {w} : InCall(wcall[u]) /\ wcall[u].path = p]
          ELSE IF wcall[v].pc \notin {"idle", "err"} /\ wcall[v].path = p
               THEN [wcall[v] EXCEPT !.raced = TRUE]
               ELSE wcall[v]]
    /\ UNCHANGED <<file, temp>>

\* line 340: File::create(&temp_path) creates the file, or truncates the one
\* that is there
CreateOk(w) ==
    /\ wcall[w].pc = "create"
    /\ temp' = [temp EXCEPT ![wcall[w].path] = NewFile]
    /\ wcall' = [wcall EXCEPT ![w].pc = "write", ![w].at = "temp"]
    /\ UNCHANGED file

\* a step of the call fails: map_err(|e| e.to_string())? returns the error
Fail(w, pc) ==
    /\ wcall[w].pc = pc
    /\ wcall' = [wcall EXCEPT ![w].pc = "err", ![w].at = "none", ![w].off = 0,
                               ![w].raced = FALSE]
    /\ UNCHANGED <<file, temp>>

\* line 340: File::create fails
CreateErr(w) == Fail(w, "create")

\* line 341: write_all writes the next part of contents at the descriptor's offset
WriteSome(w) ==
    /\ wcall[w].pc = "write"
    /\ wcall[w].off < ContentLen
    /\ LET c == wcall[w]
           b == Bytes(w)[c.off + 1]
       IN /\ temp' = IF c.at = "temp"
                     THEN [temp EXCEPT ![c.path] =
                             [@ EXCEPT !.data = WriteAt(@, c.off, b), !.synced = FALSE]]
                     ELSE temp
          /\ file' = IF c.at = "target"
                     THEN [file EXCEPT ![c.path] =
                             [@ EXCEPT !.data = WriteAt(@, c.off, b), !.synced = FALSE]]
                     ELSE file
          /\ wcall' = [wcall EXCEPT ![w].off = c.off + 1]

\* line 341: write_all has written everything
WriteDone(w) ==
    /\ wcall[w].pc = "write"
    /\ wcall[w].off = ContentLen
    /\ wcall' = [wcall EXCEPT ![w].pc = "sync"]
    /\ UNCHANGED <<file, temp>>

\* line 341: write_all fails; what it has written stays in the file
WriteErr(w) == Fail(w, "write")

\* line 342: file.sync_all()
SyncOk(w) ==
    /\ wcall[w].pc = "sync"
    /\ LET c == wcall[w]
       IN /\ temp' = IF c.at = "temp" THEN [temp EXCEPT ![c.path].synced = TRUE] ELSE temp
          /\ file' = IF c.at = "target" THEN [file EXCEPT ![c.path].synced = TRUE] ELSE file
    /\ wcall' = [wcall EXCEPT ![w].pc = "rename"]

\* line 342: sync_all fails
SyncErr(w) == Fail(w, "sync")

\* the call returns Ok(()) without renaming
RenameSkipped(w) ==
    /\ wcall[w].pc = "rename"
    /\ wcall' = [wcall EXCEPT ![w].pc = "ok", ![w].at = "none", ![w].off = 0]
    /\ UNCHANGED <<file, temp>>

\* lines 343-348: drop(file), fs::rename(&temp_path, path), Ok(())
RenameOk(w) ==
    /\ wcall[w].pc = "rename"
    /\ LET p == wcall[w].path
       IN /\ temp[p].exists
          /\ file' = [file EXCEPT ![p] = temp[p]]
          /\ temp' = [temp EXCEPT ![p] = Absent]
          /\ wcall' = [v \in Writers |->
                IF v = w THEN [wcall[w] EXCEPT !.pc = "ok", !.at = "none", !.off = 0]
                ELSE IF InCall(wcall[v]) /\ wcall[v].path = p /\ wcall[v].at # "none"
                     THEN [wcall[v] EXCEPT !.at = Renamed(@)]
                     ELSE wcall[v]]

\* line 346: fs::rename fails (always when the temp file is no longer there)
RenameErr(w) == Fail(w, "rename")

\* ---- the version-control layer (services/git.rs, routes/git.rs) ----
\* the files of the data directory the model follows: a note, a temp file
\* and the ignore file; a file's content is a string, Missing when there is
\* no file
IgnoreFile == <<".", "g", "i", "t", "i", "g", "n", "o", "r", "e">>
GitFiles == {NoteMd, NoteTmp, IgnoreFile}
Missing == "missing"
Versions == {"v1", "v2"}
\* init_repo line 238: the content of the ignore file it writes
DefaultIgnore == "*.tmp\n.DS_Store\n"

EmptyTree == [f \in GitFiles |-> Missing]

\* the repository: the index, the commits from the root to HEAD, and the
\* paths the index holds unmerged
NoRepo == [exists |-> FALSE]
EmptyRepo == [exists |-> TRUE, index |-> EmptyTree, commits |-> << >>, conflicts |-> {}]

\* Result<_, String>: the error strings of commit_all, and the e.to_string()
\* of a git2 or io error
Committed(info) == [tag |-> "Ok", info |-> info]
NoChanges == [tag |-> "Err", error |-> "No changes to commit"]
RepoMissing == [tag |-> "Err", error |-> "Not a git repository"]
GitFailed == [tag |-> "Err", error |-> "git2 error"]
InitFailed == [tag |-> "Err", error |-> "Failed to init repo"]
IgnoreFailed == [tag |-> "Err", error |-> "Failed to create .gitignore"]
NoValue == [tag |-> "None"]
NoGitRet == [op |-> "none"]

\* the ignore rules in force: the default ignore file excludes *.tmp
Ignored(wt, f) == wt[IgnoreFile] = DefaultIgnore /\ EndsWith(f, Str_tmp)

\* index.add_all(["*"], DEFAULT): every file of the working directory is
\* added or updated, a file that is gone is removed, an untracked ignored
\* file is skipped
Stage(wt, index) ==
    [f \in GitFiles |->
        IF wt[f] = Missing THEN Missing
        ELSE IF index[f] = Missing /\ Ignored(wt, f) THEN Missing
        ELSE wt[f]]

\* repo.head().ok().and_then(|h| h.peel_to_commit().ok()), as a set
Parent(r) == IF r.commits = << >> THEN {} ELSE {r.commits[Len(r.commits)]}

\* a commit_all that commits whether or not the tree differs from the parent's
commit_all_always(wt, r, message) ==
    IF ~r.exists THEN {[repo |-> r, value |-> RepoMissing]}
    ELSE LET staged == [r EXCEPT !.index = Stage(wt, r.index), !.conflicts = {}]
             info == [id |-> Len(r.commits) + 1, message |-> message]
         IN {[repo |-> r, value |-> GitFailed], [repo |-> staged, value |-> GitFailed],
             [repo |-> [staged EXCEPT !.commits =
                           Append(@, [tree |-> staged.index, message |-> message])],
              value |-> Committed(info)]}

\* commit_all: the outcomes of one call, each with the repository it leaves.
\* A git2 call may fail before the index is written (lines 181-188) or after
\* it (lines 191-216).
commit_all(wt, r, message) ==
    IF ~r.exists THEN {[repo |-> r, value |-> RepoMissing]}
    ELSE LET staged == [r EXCEPT !.index = Stage(wt, r.index), !.conflicts = {}]
             info == [id |-> Len(r.commits) + 1, message |-> message]
         IN {[repo |-> r, value |-> GitFailed], [repo |-> staged, value |-> GitFailed]}
            \cup (IF \E p \in Parent(r) : p.tree = staged.index
                  THEN {[repo |-> staged, value |-> NoChanges]}
                  ELSE {[repo |-> [staged EXCEPT !.commits =
                                      Append(@, [tree |-> staged.index, message |-> message])],
                         value |-> Committed(info)]})

\* the tree of HEAD's commit; nothing is in it while HEAD is unborn
HeadTree(r) == IF r.commits = << >> THEN EmptyTree ELSE r.commits[Len(r.commits)].tree

\* git2::Status of one path: h, i, w are its content in HEAD's tree, in the
\* index and in the working directory; an unmerged path is only CONFLICTED,
\* an ignored untracked file has no entry
Flags(h, i, w, conflicted, ignored) ==
    IF conflicted THEN {"conflicted"}
    ELSE (IF h = Missing /\ i # Missing THEN {"index_new"} ELSE {})
         \cup (IF h # Missing /\ i # Missing /\ h # i THEN {"index_modified"} ELSE {})
         \cup (IF h # Missing /\ i = Missing THEN {"index_deleted"} ELSE {})
         \cup (IF i = Missing /\ w # Missing /\ ~ignored THEN {"wt_new"} ELSE {})
         \cup (IF i # Missing /\ w # Missing /\ i # w THEN {"wt_modified"} ELSE {})
         \cup (IF i # Missing /\ w = Missing THEN {"wt_deleted"} ELSE {})

\* get_status lines 137-147: the status string of an entry, as a set (empty:
\* the entry is left out of the list)
StatusStr(flags) ==
    IF flags \cap {"index_new", "wt_new"} # {} THEN {"new"}
    ELSE IF flags \cap {"index_modified", "wt_modified"} # {} THEN {"modified"}
    ELSE IF flags \cap {"index_deleted", "wt_deleted"} # {} THEN {"deleted"}
    ELSE IF flags \cap {"index_renamed", "wt_renamed"} # {} THEN {"renamed"}
    ELSE {}

\* repo.statuses(include_untracked, recurse_untracked_dirs): the flags of f
EntryFlags(wt, r, f) ==
    Flags(HeadTree(r)[f], r.index[f], wt[f], f \in r.conflicts, Ignored(wt, f))

\* get_status lines 131-154: Vec<FileStatus>, one entry for each path
FileStatuses(wt, r) ==
    UNION {{[path |-> f, status |-> st] : st \in StatusStr(EntryFlags(wt, r, f))} :
              f \in GitFiles}

\* struct RepoStatus
NotARepo == [is_repo |-> FALSE, branch |-> "None", files |-> {}, has_changes |-> FALSE,
             last_commit |-> "None"]
RepoStatus(wt, r) ==
    [is_repo |-> TRUE,
     branch |-> IF r.commits = << >> THEN "None" ELSE "master",
     files |-> FileStatuses(wt, r),
     has_changes |-> FileStatuses(wt, r) # {},
     last_commit |-> IF r.commits = << >> THEN "None"
                     ELSE r.commits[Len(r.commits)].message]
OkStatus(st) == [tag |-> "Ok", status |-> st]

\* get_status: the outcomes of one call; it writes nothing
get_status(wt, r) ==
    IF ~r.exists THEN {OkStatus(NotARepo)}
    ELSE {GitFailed, OkStatus(RepoStatus(wt, r))}

\* init_repo: the outcomes of one call, each with the working directory and
\* the repository it leaves. Repository::init creates the directory if it
\* has to; the ignore file is written only when there is none.
init_repo(wt, r, rt) ==
    IF r.exists THEN {[worktree |-> wt, repo |-> r, root |-> rt, value |-> OkUnit]}
    ELSE LET written == IF wt[IgnoreFile] = Missing
                        THEN [wt EXCEPT ![IgnoreFile] = DefaultIgnore]
                        ELSE wt
         IN {[worktree |-> wt, repo |-> r, root |-> rt, value |-> InitFailed]}
            \cup (IF wt[IgnoreFile] = Missing
                  THEN {[worktree |-> wt, repo |-> EmptyRepo, root |-> TRUE,
                         value |-> IgnoreFailed]}
                  ELSE {})
            \cup {[worktree |-> written, repo |-> o.repo, root |-> TRUE,
                   value |-> IF o.value.tag = "Ok" THEN OkUnit ELSE o.value] :
                      o \in commit_all(written, EmptyRepo, "Initial commit")}

\* routes/git.rs: the response of each handler to the service's result
commit_response(v) ==
    IF v.tag = "Ok" THEN [status |-> "CREATED", body |-> v.info]
    ELSE [status |-> "BAD_REQUEST", body |-> v.error]
get_status_response(v) ==
    IF v.tag = "Ok" THEN [status |-> "OK", body |-> v.status]
    ELSE [status |-> "INTERNAL_SERVER_ERROR", body |-> v.error]
init_repo_response(v) ==
    IF v.tag = "Ok" THEN [status |-> "OK"]
    ELSE [status |-> "INTERNAL_SERVER_ERROR", body |-> v.error]

\* ---- get_log ----
\* a file of a tree is in a subdirectory when its path has a separator
TopLevel(f) == ~Contains(f, <<Slash>>)

\* count_tree_entries: tree.iter() yields the entries of the tree itself, and
\* those of kind Blob are counted
count_tree_entries(tree) ==
    Cardinality({f \in DOMAIN tree : tree[f] # Missing /\ TopLevel(f)})

\* repo.diff_tree_to_tree(parent tree, commit tree, None): deltas().count()
deltas(pt, ct) == Cardinality({f \in DOMAIN ct : pt[f] # ct[f]})

DefaultLimit == 50
OkLog(commits) == [tag |-> "Ok", commits |-> commits]

\* get_log(limit): the outcomes of one call; limit is a one-element set for
\* Some(n) and empty for None. The walk starts at HEAD and goes to the root.
get_log(r, limit) ==
    IF ~r.exists THEN {RepoMissing}
    ELSE IF r.commits = << >> THEN {GitFailed}
    ELSE LET max_commits == IF limit = {} THEN DefaultLimit ELSE CHOOSE n \in limit : TRUE
             n == Len(r.commits)
             detail(id) ==
                 [id |-> id,
                  message |-> r.commits[id].message,
                  files_changed |->
                      IF id > 1 THEN deltas(r.commits[id - 1].tree, r.commits[id].tree)
                      ELSE count_tree_entries(r.commits[id].tree)]
         IN {GitFailed,
             OkLog([i \in 1..Min(max_commits, n) |-> detail(n - i + 1)])}

\* routes/git.rs get_log
get_log_response(v) ==
    IF v.tag = "Ok" THEN [status |-> "OK", body |-> v.commits]
    ELSE [status |-> "INTERNAL_SERVER_ERROR", body |-> v.error]

\* ---- callers of the version-control layer ----
outsideGit == <<locks, apiVars, wsVars, fsVars, watchVars, netVars>>

\* a file of the data directory is created, rewritten or deleted, by a
\* request handler or from outside
Edit(f, c) ==
    /\ root
    /\ c # worktree[f]
    /\ worktree' = [worktree EXCEPT ![f] = c]
    /\ gret' = NoGitRet
    /\ UNCHANGED repo
    /\ UNCHANGED <<outsideGit, bootVars>>

\* a merge run with git in the data directory stops on a conflict in f: the
\* index holds f unmerged (what check_conflicts looks for)
ExternalConflict(f) ==
    /\ repo.exists
    /\ repo.commits # << >>
    /\ repo.index[f] # Missing
    /\ f \notin repo.conflicts
    /\ repo' = [repo EXCEPT !.conflicts = @ \cup {f}]
    /\ gret' = NoGitRet
    /\ UNCHANGED worktree
    /\ UNCHANGED <<outsideGit, bootVars>>

\* start_auto_commit lines 362-370: what the task logs for a result: info for
\* a commit, nothing for an error whose text contains "No changes", a warning
\* for any other error
auto_commit_log(v) ==
    IF v.tag = "Ok" THEN "info"
    ELSE IF v.error = NoChanges.error THEN "none"
    ELSE "warn"

\* one call of commit_all returns; gret keeps the result of the call before
\* it when nothing has changed in between, and where HEAD was
CommitAll(caller, message) ==
    \E o \in commit_all(worktree, repo, message) :
        /\ o.repo.exists => Len(o.repo.commits) <= MaxCommits
        /\ repo' = o.repo
        /\ gret' = [op |-> "commit_all", caller |-> caller, value |-> o.value,
                    response |-> IF caller = "route" THEN commit_response(o.value)
                                 ELSE [status |-> "None"],
                    prev |-> IF gret.op = "commit_all" THEN gret.value ELSE NoValue,
                    head |-> IF repo.exists THEN Len(repo.commits) ELSE 0,
                    log |-> IF caller = "auto" THEN auto_commit_log(o.value) ELSE "none"]
        /\ UNCHANGED worktree
        /\ UNCHANGED <<outsideGit, bootVars>>

\* routes/git.rs commit: POST /api/git/commit
CommitRoute(message) == main = "serve" /\ CommitAll("route", message)

\* an auto-commit task that ends at the first error of commit_all
AutoCommitUntilError ==
    /\ auto_commit
    /\ \E o \in commit_all(worktree, repo, "Auto-save") :
        /\ o.repo.exists => Len(o.repo.commits) <= MaxCommits
        /\ repo' = o.repo
        /\ gret' = [op |-> "commit_all", caller |-> "auto", value |-> o.value,
                    response |-> [status |-> "None"],
                    prev |-> IF gret.op = "commit_all" THEN gret.value ELSE NoValue,
                    head |-> IF repo.exists THEN Len(repo.commits) ELSE 0,
                    log |-> auto_commit_log(o.value)]
        /\ auto_commit' = (o.value.tag = "Ok")
        /\ UNCHANGED <<worktree, main, watcher, root>>
        /\ UNCHANGED outsideGit

\* start_auto_commit lines 359-371: a tick of the 60 s interval
AutoCommit == auto_commit /\ CommitAll("auto", "Auto-save")

\* routes/git.rs get_status: GET /api/git/status
GetStatusRoute ==
    /\ main = "serve"
    /\ \E v \in get_status(worktree, repo) :
          gret' = [op |-> "get_status", value |-> v, response |-> get_status_response(v)]
    /\ UNCHANGED <<worktree, repo>>
    /\ UNCHANGED <<outsideGit, bootVars>>

\* one call of init_repo returns
InitRepo(caller) ==
    \E o \in init_repo(worktree, repo, root) :
        /\ worktree' = o.worktree
        /\ repo' = o.repo
        /\ root' = o.root
        /\ gret' = [op |-> "init_repo", caller |-> caller, value |-> o.value,
                    response |-> IF caller = "route" THEN init_repo_response(o.value)
                                 ELSE [status |-> "None"],
                    before |-> repo.exists]
        /\ UNCHANGED outsideGit

\* routes/git.rs init_repo: POST /api/git/init
InitRepoRoute == main = "serve" /\ InitRepo("route") /\ UNCHANGED <<main, watcher, auto_commit>>

\* GET /api/git/log?limit=..
GetLogRoute(limit) ==
    /\ main = "serve"
    /\ \E v \in get_log(repo, limit) :
          gret' = [op |-> "get_log", limit |-> limit, value |-> v,
                   response |-> get_log_response(v)]
    /\ UNCHANGED <<worktree, repo>>
    /\ UNCHANGED <<outsideGit, bootVars>>

\* ---- startup (main.rs, watcher::start_watcher) ----
\* main line 36, config::init_data_dir lines 46-51: the data directory is
\* created if it is not there; a failure is logged and startup goes on
InitDataDir ==
    /\ main = "init_data_dir"
    /\ root' \in IF root THEN {TRUE} ELSE {TRUE, FALSE}
    /\ main' = "start_watcher"
    /\ UNCHANGED <<watcher, auto_commit, gitVars>>
    /\ UNCHANGED outsideGit

\* the states of the watcher in which start_watcher has returned an error,
\* named by the error
WatcherFailed ==
    {"Failed to create file watcher", "Data directory does not exist",
     "Failed to watch directory"}

\* start_watcher returns to main line 46, which logs an error and goes on
WatcherReturns(state) ==
    /\ main = "start_watcher"
    /\ watcher' = state
    /\ main' = "init_repo"
    /\ UNCHANGED <<root, auto_commit, gitVars>>
    /\ UNCHANGED outsideGit

\* start_watcher lines 17-26: new_debouncer fails
StartWatcherDebouncerErr == WatcherReturns("Failed to create file watcher")

\* the consumer is spawned although the data directory is missing
StartWatcherNoDirSpawns == ~root /\ WatcherReturns("running")

\* start_watcher lines 29-35: the data directory does not exist
StartWatcherNoDir == ~root /\ WatcherReturns("Data directory does not exist")

\* start_watcher lines 40-45: watch(data_path, Recursive) fails
StartWatcherWatchErr == root /\ WatcherReturns("Failed to watch directory")

\* start_watcher lines 47-62: the consumer task is spawned, Ok(())
StartWatcherOk == root /\ WatcherReturns("running")

\* main lines 51-53: init_repo, an error is logged and startup goes on
BootInitRepo ==
    /\ main = "init_repo"
    /\ InitRepo("main")
    /\ main' = "start_auto_commit"
    /\ UNCHANGED <<watcher, auto_commit>>

\* main line 56: start_auto_commit spawns the interval task; then the router
\* is built and axum::serve runs (lines 59-133)
StartAutoCommit ==
    /\ main = "start_auto_commit"
    /\ auto_commit' = TRUE
    /\ main' = "serve"
    /\ UNCHANGED <<watcher, root, gitVars>>
    /\ UNCHANGED outsideGit

\* ---- specifications ----
\* FileLockManager::new, WsState::new, an empty data directory and marker table
InitServer ==
    /\ locks = {}
    /\ guards = {}
    /\ call = [t \in Tasks |-> Idle]
    /\ ret = NoRet
    /\ clients = {}
    /\ buffer = << >>
    /\ rx = [s \in Clients |-> NoRx]
    /\ handler = [s \in Clients |-> "new"]
    /\ send_task = [s \in Clients |-> "none"]
    /\ recv_task = [s \in Clients |-> NotSpawned]
    /\ released = [s \in Clients |-> << >>]
    /\ published = << >>
    /\ sent = [s \in Clients |-> << >>]
    /\ since = [s \in Clients |-> 0]
    /\ file = [p \in Paths |-> Absent]
    /\ temp = [p \in Paths |-> Absent]
    /\ wcall = [w \in Writers |-> NoCall]
    /\ clock = 0
    /\ saves = {}
    /\ handled = NoEvent
    /\ gret = NoGitRet
    /\ inbound = NoFrame

\* main has reached axum::serve with the watcher and the auto-commit task
\* running, on an empty data directory in which no repository was created
Started ==
    /\ main = "serve"
    /\ watcher = "running"
    /\ root = TRUE
    /\ auto_commit = TRUE
    /\ worktree = EmptyTree
    /\ repo = NoRepo

\* config::init_data_dir without IRONPAD_DATA_DIR, in production mode
Init == InitServer /\ Started /\ data_dir = DefaultDataDir

\* config::init_data_dir, with or without IRONPAD_DATA_DIR
InitAnyDir == InitServer /\ Started /\ data_dir \in DataDirs

\* the process has just started: main is at its first statement, and the
\* data directory may or may not exist
InitBoot ==
    /\ InitServer
    /\ data_dir = DefaultDataDir
    /\ main = "init_data_dir"
    /\ watcher = "none"
    /\ root \in BOOLEAN
    /\ auto_commit = FALSE
    /\ worktree = EmptyTree
    /\ repo = NoRepo

NextLocks ==
    \/ \E t \in Tasks, p \in Paths, c \in Clients, k \in LockType : AcquireEnter(t, p, c, k)
    \/ \E t \in Tasks : AcquireCheck(t)
    \/ \E t \in Tasks : AcquireInsert(t)
    \/ \E t \in Tasks, p \in Paths, c \in Clients : ReleaseEnter(t, p, c)
    \/ \E t \in Tasks : ReleaseCheck(t)
    \/ \E t \in Tasks : ReleaseRemove(t)
    \/ \E t \in Tasks, p \in Paths, c \in Clients : IsLockedByOther(t, p, c)
    \/ \E t \in Tasks, c \in Clients : ReleaseAllEnter(t, c)
    \/ \E t \in Tasks : ReleaseAllCollect(t)
    \/ \E t \in Tasks : ReleaseAllRemove(t)

SpecLocks == Init /\ [][NextLocks]_vars

NextWs ==
    \/ \E s \in Clients : Connect(s) /\ UNCHANGED hubLog
    \/ \E s \in Clients : SendConnected(s) /\ UNCHANGED hubLog
    \/ \E s \in Clients : ForwardOk(s) /\ UNCHANGED hubLog
    \/ \E s \in Clients : ForwardSendErr(s) /\ UNCHANGED hubLog
    \/ \E s \in Clients : ForwardLagged(s) /\ UNCHANGED hubLog
    \/ \E s \in Clients, p \in Paths, w \in WireKinds : RecvLockFile(s, p, w) /\ UNCHANGED hubLog
    \/ \E s \in Clients, p \in Paths : RecvUnlockFile(s, p) /\ UNCHANGED hubLog
    \/ \E s \in Clients : RecvBroadcast(s) /\ UNCHANGED hubLog
    \/ \E s \in Clients : RecvIgnored(s) /\ UNCHANGED hubLog
    \/ \E s \in Clients : RecvEnd(s) /\ UNCHANGED hubLog
    \/ \E s \in Clients : SelectDone(s) /\ UNCHANGED hubLog
    \/ \E s \in Clients : TeardownRelease(s) /\ UNCHANGED hubLog
    \/ \E s \in Clients : TeardownBroadcast(s) /\ UNCHANGED hubLog
    \/ \E s \in Clients : TeardownRemove(s) /\ UNCHANGED hubLog

SpecWs == Init /\ [][NextWs]_vars

\* the steps of handle_socket after select! for session s: the handler task is
\* scheduled by the runtime and waits only for the lock manager's mutex and
\* the clients lock, which are held for no longer than one call
TeardownStep(s) ==
    SelectDone(s) \/ TeardownRelease(s) \/ TeardownBroadcast(s) \/ TeardownRemove(s)

\* the sessions with a handler that is always scheduled again
SpecWsFair ==
    /\ Init
    /\ [][NextWs]_vars
    /\ \A s \in Clients : WF_vars(TeardownStep(s) /\ UNCHANGED hubLog)
    /\ \A s \in Clients : WF_vars(RecvBroadcast(s) /\ UNCHANGED hubLog)

\* ---- the hub alone (SpecHub) ----
\* the messages handed to the hub: two kinds about one path are enough to
\* tell them apart
HubEvents == {FileModified(1), FileDeleted(1)}

\* WsState::broadcast(msg), called by any component: tx.send(msg), result ignored
Publish(e) ==
    /\ Len(published) < MaxPublished
    /\ Send(e)
    /\ published' = Append(published, e)
    /\ UNCHANGED <<locks, clients, handler, send_task, recv_task, released, sent, since>>
    /\ UNCHANGED apiVars
    /\ UNCHANGED <<fsVars, watchVars, sysVars>>

\* sender.send(Message::Text(json)) of session s succeeds
Sent(s, m) ==
    /\ sent' = [sent EXCEPT ![s] = Append(sent[s], m)]
    /\ UNCHANGED <<published, since>>

\* state.tx.subscribe() of session s: the receiver starts at the channel's tail
Subscribe(s) ==
    /\ since' = [since EXCEPT ![s] = Len(published)]
    /\ UNCHANGED <<published, sent>>

\* the sessions as subscribers of the hub (their readers and teardowns publish
\* through Publish), and any component publishing
NextHub ==
    \/ \E e \in HubEvents : Publish(e)
    \/ \E s \in Clients : Connect(s) /\ Subscribe(s)
    \/ \E s \in Clients : SendConnected(s) /\ Sent(s, Connected(s))
    \/ \E s \in Clients : SendConnected(s) /\ UNCHANGED hubLog
    \/ \E s \in Clients : ForwardOk(s) /\ Sent(s, NextEvent(s))
    \/ \E s \in Clients : ForwardSendErr(s) /\ UNCHANGED hubLog
    \/ \E s \in Clients : ForwardLagged(s) /\ UNCHANGED hubLog

SpecHub == Init /\ [][NextHub]_vars

\* concurrent callers of atomic_write on one path
NextFs ==
    \/ \E w \in Writers, p \in FsPaths : Enter(w, p) /\ UNCHANGED outsideFs
    \/ \E w \in Writers : CreateOk(w) /\ UNCHANGED <<outsideFs, watchVars>>
    \/ \E w \in Writers : CreateErr(w) /\ UNCHANGED <<outsideFs, watchVars>>
    \/ \E w \in Writers : WriteSome(w) /\ UNCHANGED <<outsideFs, watchVars>>
    \/ \E w \in Writers : WriteDone(w) /\ UNCHANGED <<outsideFs, watchVars>>
    \/ \E w \in Writers : WriteErr(w) /\ UNCHANGED <<outsideFs, watchVars>>
    \/ \E w \in Writers : SyncOk(w) /\ UNCHANGED <<outsideFs, watchVars>>
    \/ \E w \in Writers : SyncErr(w) /\ UNCHANGED <<outsideFs, watchVars>>
    \/ \E w \in Writers : RenameOk(w) /\ UNCHANGED <<outsideFs, watchVars>>
    \/ \E w \in Writers : RenameErr(w) /\ UNCHANGED <<outsideFs, watchVars>>

SpecFs == Init /\ [][NextFs]_vars

\* the callers of atomic_write while time passes
NextSave == NextFs \/ Tick

SpecSave == Init /\ [][NextSave]_vars

\* the watcher, the clock and the writes that set markers
NextWatch ==
    \/ Tick
    \/ \E f \in Documents : MarkFileSaved(f)
    \/ \E event \in Events(data_dir) : ProcessEvent(event)

\* the files the model edits with the contents it gives them, and the
\* messages of on-demand commits
Notes == {NoteMd, NoteTmp}
Contents(f) == IF f = NoteMd THEN Versions ELSE {"v1"}
Messages == {"Save"}

\* the version-control layer under on-demand calls, the auto-commit task,
\* changes to the files and merges made outside
NextGit ==
    \/ \E f \in Notes : \E c \in Contents(f) \cup {Missing} : Edit(f, c)
    \/ ExternalConflict(NoteMd)
    \/ \E m \in Messages : CommitRoute(m)
    \/ AutoCommit
    \/ GetStatusRoute
    \/ InitRepoRoute

SpecGit == Init /\ [][NextGit]_vars

\* the events the watcher is given while the server starts and runs: a
\* change of the note, and the rename that ends an atomic write of it
BootEvents ==
    {[kind |-> "Modify", paths |-> <<Join(data_dir, NoteMd)>>],
     [kind |-> "Create", paths |-> <<Join(data_dir, NoteTmp), Join(data_dir, NoteMd)>>]}

\* startup, and what the started server does: sessions connect, lock and are
\* forwarded events, the version-control layer is called, and the watcher's
\* consumer, if it runs, handles events
NextBoot ==
    \/ InitDataDir
    \/ StartWatcherDebouncerErr
    \/ StartWatcherNoDir
    \/ StartWatcherWatchErr
    \/ StartWatcherOk
    \/ BootInitRepo
    \/ StartAutoCommit
    \/ \E event \in BootEvents : ProcessEvent(event)
    \/ \E s \in Clients : main = "serve" /\ Connect(s) /\ UNCHANGED hubLog
    \/ \E s \in Clients : SendConnected(s) /\ UNCHANGED hubLog
    \/ \E s \in Clients, p \in FsPaths, w \in WireKinds : RecvLockFile(s, p, w) /\ UNCHANGED hubLog
    \/ \E s \in Clients : RecvBroadcast(s) /\ UNCHANGED hubLog
    \/ \E s \in Clients : ForwardOk(s) /\ UNCHANGED hubLog
    \/ AutoCommit
    \/ GetStatusRoute

SpecBoot == InitBoot /\ [][NextBoot]_vars

\* ---- the sessions with the record of the hub's traffic (SpecPeers) ----
\* WsState::broadcast(e) by a session: e joins the record of what was published
Handed(e) ==
    /\ Len(published) < MaxPublished
    /\ published' = Append(published, e)
    /\ UNCHANGED <<sent, since>>

\* the sessions as senders of messages: handshake, forwarder, reader and
\* teardown
NextPeers ==
    \/ \E s \in Clients : Connect(s) /\ Subscribe(s)
    \/ \E s \in Clients : SendConnected(s) /\ Sent(s, Connected(s))
    \/ \E s \in Clients : SendConnected(s) /\ UNCHANGED hubLog
    \/ \E s \in Clients : ForwardOk(s) /\ Sent(s, NextEvent(s))
    \/ \E s \in Clients : ForwardSendErr(s) /\ UNCHANGED hubLog
    \/ \E s \in Clients : ForwardLagged(s) /\ UNCHANGED hubLog
    \/ \E s \in Clients, p \in FsPaths : RecvLockFile(s, p, "editor") /\ UNCHANGED hubLog
    \/ \E s \in Clients, p \in FsPaths : RecvUnlockFile(s, p) /\ UNCHANGED hubLog
    \/ \E s \in Clients : RecvBroadcast(s) /\ Handed(recv_task[s].event)
    \/ \E s \in Clients : RecvEnd(s) /\ UNCHANGED hubLog
    \/ \E s \in Clients : SelectDone(s) /\ UNCHANGED hubLog
    \/ \E s \in Clients : TeardownRelease(s) /\ UNCHANGED hubLog
    \/ \E s \in Clients : TeardownBroadcast(s) /\ Handed(FileUnlocked(Head(released[s])))
    \/ \E s \in Clients : TeardownRemove(s) /\ UNCHANGED hubLog

SpecPeers == Init /\ [][NextPeers]_vars

\* ---- the sessions, frame by frame (SpecFrames) ----
\* what a peer may put on the socket, about one path
Frames ==
    {Text(t) : t \in {NotJson, UnknownText, PongText, NoKindText(1), UnlockFileText(1)}
                     \cup {LockFileText(1, w) : w \in WireKinds}}
    \cup {Binary, Ping, Pong, Close}

NextFrames ==
    \/ \E s \in Clients : Connect(s) /\ UNCHANGED hubLog
    \/ \E s \in Clients : SendConnected(s) /\ UNCHANGED hubLog
    \/ \E s \in Clients : ForwardOk(s) /\ UNCHANGED hubLog
    \/ \E s \in Clients : ForwardSendErr(s) /\ UNCHANGED hubLog
    \/ \E s \in Clients : ForwardLagged(s) /\ UNCHANGED hubLog
    \/ \E s \in Clients, frame \in Frames : Recv(s, frame) /\ UNCHANGED hubLog
    \/ \E s \in Clients : RecvBroadcast(s) /\ UNCHANGED hubLog
    \/ \E s \in Clients : RecvEnd(s) /\ UNCHANGED hubLog
    \/ \E s \in Clients : SelectDone(s) /\ UNCHANGED hubLog
    \/ \E s \in Clients : TeardownRelease(s) /\ UNCHANGED hubLog
    \/ \E s \in Clients : TeardownBroadcast(s) /\ UNCHANGED hubLog
    \/ \E s \in Clients : TeardownRemove(s) /\ UNCHANGED hubLog

SpecFrames == Init /\ [][NextFrames]_vars

\* ---- the history of a repository (SpecLog) ----
\* the files of the histories: a note at the top of the data directory and
\* one in its archive directory
LogFiles == {NoteMd, InArchive}
Trees == [LogFiles -> Versions \cup {Missing}]

\* histories of one to MaxCommits commits; commit_all never commits a tree
\* equal to its parent's
Histories ==
    UNION {{h \in [1..n -> [tree : Trees, message : Messages]] :
               \A i \in 2..n : h[i].tree # h[i - 1].tree} : n \in 1..MaxCommits}

\* the server runs on a data directory with no repository, or with one whose
\* working directory and index are those of HEAD
InitLog ==
    /\ InitServer
    /\ data_dir = DefaultDataDir
    /\ main = "serve" /\ watcher = "running" /\ root = TRUE /\ auto_commit = TRUE
    /\ \/ worktree = EmptyTree /\ repo = NoRepo
       \/ \E h \in Histories :
             /\ worktree = h[Len(h)].tree
             /\ repo = [exists |-> TRUE, index |-> h[Len(h)].tree, commits |-> h,
                        conflicts |-> {}]

\* the limits of the requests: none, and one below the longest history
Limits == {{}} \cup {{n} : n \in 0..(MaxCommits - 1)}

NextLog == \E limit \in Limits : GetLogRoute(limit)

SpecLog == InitLog /\ [][NextLog]_vars

SpecWatch == InitAnyDir /\ [][NextWatch]_vars

\* ---- properties of the lock manager (SpecLocks) ----
\* task t takes a step of its call
Steps(t) == call'[t] # call[t]

\* the entries of m other than the one for p
Others(m, p) == {l \in m : l.path # p}

\* C1: in every reachable state each path has at most one Lock entry, so two
\* distinct clients never hold a lock on the same path at the same time.
C1_OneLockPerPath ==
    /\ \A p \in Paths : Cardinality(Get(locks, p)) <= 1
    /\ \A l1, l2 \in locks : l1.path = l2.path => l1.client_id = l2.client_id

\* a second client has just been refused on a path that stays locked once
W1_RefusedSecondClient ==
    /\ ret.op = "acquire"
    /\ ret.value.tag = "AlreadyLocked"
    /\ Cardinality(Get(locks, ret.path)) = 1

\* C2: acquire(p, B, k') while p is locked by another client A with kind k
\* returns at once with AlreadyLocked{holder = A, lock_type = k} and leaves the
\* table unchanged; release(p, B) on such a path returns NotOwner and leaves the
\* table unchanged, so p stays locked by A.
C2_ConflictDenied ==
    [][\A t \in Tasks :
        LET a == call[t]
        IN /\ (a.pc = "acquire_check" /\ Steps(t)
                /\ \E l \in locks : l.path = a.path /\ l.client_id # a.client_id)
              => /\ \E l \in locks :
                      /\ l.path = a.path
                      /\ ret' = [op |-> "acquire", path |-> a.path,
                                 client_id |-> a.client_id, lock_type |-> a.lock_type,
                                 value |-> [tag |-> "AlreadyLocked",
                                            holder |-> l.client_id,
                                            lock_type |-> l.lock_type]]
                 /\ locks' = locks
                 /\ call'[t] = Idle
           /\ (a.pc = "release_check" /\ Steps(t)
                /\ \E l \in locks : l.path = a.path /\ l.client_id # a.client_id)
              => /\ ret' = [op |-> "release", path |-> a.path, client_id |-> a.client_id,
                            value |-> [tag |-> "NotOwner"]]
                 /\ locks' = locks
                 /\ call'[t] = Idle
    ]_vars

\* a refusal that reports the holder's kind, which differs from the requested one
W2_RefusedWithHolderKind ==
    /\ ret.op = "acquire"
    /\ ret.value.tag = "AlreadyLocked"
    /\ ret.value.holder # ret.client_id
    /\ ret.value.lock_type # ret.lock_type
    /\ \E l \in locks : /\ l.path = ret.path
                        /\ l.client_id = ret.value.holder
                        /\ l.lock_type = ret.value.lock_type

\* C3: release(p, c) returns NotLocked when p has no lock and NotOwner when p is
\* locked by another client, the table unchanged in both cases; otherwise it
\* returns Ok, removes exactly the entry for p and leaves every other entry
\* unchanged.
C3_Release ==
    [][\A t \in Tasks :
        LET a == call[t]
            r(v) == [op |-> "release", path |-> a.path, client_id |-> a.client_id,
                     value |-> v]
        IN /\ (a.pc = "release_check" /\ Steps(t)) =>
                /\ locks' = locks
                /\ (\A l \in locks : l.path # a.path)
                      => ret' = r([tag |-> "NotLocked"]) /\ call'[t] = Idle
                /\ (\E l \in locks : l.path = a.path /\ l.client_id # a.client_id)
                      => ret' = r([tag |-> "NotOwner"]) /\ call'[t] = Idle
                /\ (\E l \in locks : l.path = a.path /\ l.client_id = a.client_id)
                      => call'[t].pc = "release_remove" /\ ret' = ret
           /\ (a.pc = "release_remove" /\ Steps(t)) =>
                /\ ret' = r([tag |-> "Ok"])
                /\ call'[t] = Idle
                /\ \A l \in locks' : l.path # a.path
                /\ Others(locks', a.path) = Others(locks, a.path)
    ]_vars

\* a release has succeeded and another path's lock is still there
W3_ReleasedOthersKept ==
    /\ ret.op = "release"
    /\ ret.value.tag = "Ok"
    /\ locks # {}

\* the table without the acquired_at fields
Strip(m) == {[path |-> l.path, client_id |-> l.client_id, lock_type |-> l.lock_type] : l \in m}

\* C4: acquire(p, A, k2) while A already holds p succeeds, keeps A as the owner,
\* sets the kind to k2 and changes no other entry; when the entry already has
\* kind k2 (the same acquire was done before) the table is the same afterwards,
\* acquired_at apart.
C4_OwnerReentry ==
    [][\A t \in Tasks :
        LET a == call[t]
            own == \E l \in locks : l.path = a.path /\ l.client_id = a.client_id
        IN /\ (a.pc = "acquire_check" /\ Steps(t) /\ own)
              => call'[t].pc = "acquire_insert" /\ locks' = locks
           /\ (a.pc = "acquire_insert" /\ Steps(t) /\ own) =>
                /\ ret'.op = "acquire" /\ ret'.value.tag = "Ok"
                /\ ret'.value.lock \in locks'
                /\ Strip(Get(locks', a.path)) =
                      {[path |-> a.path, client_id |-> a.client_id, lock_type |-> a.lock_type]}
                /\ Others(locks', a.path) = Others(locks, a.path)
                /\ (\E l \in locks : /\ l.path = a.path
                                     /\ l.client_id = a.client_id
                                     /\ l.lock_type = a.lock_type)
                      => Strip(locks') = Strip(locks)
    ]_vars

\* the owner's acquire has passed the check of its own entry, which has another
\* kind, and is about to replace it
W4_Reacquired ==
    \E t \in Tasks :
        /\ call[t].pc = "acquire_insert"
        /\ \E l \in locks : /\ l.path = call[t].path
                            /\ l.client_id = call[t].client_id
                            /\ l.lock_type # call[t].lock_type

\* C5: release_all_for_client(A) returns exactly the paths whose lock A owned,
\* each once; afterwards no lock owned by A exists and every lock of another
\* client is unchanged.
C5_ReleaseAll ==
    [][\A t \in Tasks :
        LET a == call[t]
            owned == {l \in locks : l.client_id = a.client_id}
        IN /\ (a.pc = "release_all_collect" /\ Steps(t)) =>
                /\ locks' = locks
                /\ call'[t].pc = "release_all_remove"
                /\ Range(call'[t].paths_to_remove) = {l.path : l \in owned}
           /\ (a.pc = "release_all_remove" /\ Steps(t)) =>
                /\ ret'.op = "release_all_for_client" /\ ret'.client_id = a.client_id
                /\ ret'.value.tag = "Paths"
                /\ Range(ret'.value.paths) = {l.path : l \in owned}
                /\ Len(ret'.value.paths) = Cardinality({l.path : l \in owned})
                /\ \A l \in locks' : l.client_id # a.client_id
                /\ locks' = locks \ owned
    ]_vars

\* both paths of one client have been freed while the table was not empty before
W5_ReleasedTwo ==
    /\ ret.op = "release_all_for_client"
    /\ Len(ret.value.paths) = 2
    /\ \A l \in locks : l.client_id # ret.client_id

\* C6: calls on the lock manager take effect one at a time. No two calls are
\* inside their sections together; what a call has read is still true when it
\* writes (a task past acquire's check is not in another client's way); and a
\* returning call leaves the table and the value that the whole method, run
\* alone on the table it found, would leave. So of several clients acquiring one
\* unlocked path only the first to enter succeeds, and the others are refused
\* with that client as holder.
C6_Serialized ==
    /\ [](/\ \A t1, t2 \in Tasks : (call[t1] # Idle /\ call[t2] # Idle) => t1 = t2
          /\ guards = {<<t, "w">> : t \in {x \in Tasks : call[x] # Idle}}
          /\ \A t \in Tasks :
                /\ call[t].pc = "acquire_insert" =>
                      \A l \in locks : l.path = call[t].path => l.client_id = call[t].client_id
                /\ call[t].pc = "release_remove" =>
                      \E l \in locks : l.path = call[t].path /\ l.client_id = call[t].client_id
                /\ call[t].pc = "release_all_remove" =>
                      Range(call[t].paths_to_remove) =
                          {l.path : l \in {x \in locks : x.client_id = call[t].client_id}})
    /\ [][\A t \in Tasks :
            LET a == call[t]
                after == [locks |-> locks', value |-> ret'.value]
            IN Steps(t) =>
                /\ call'[t] # Idle => locks' = locks
                /\ (a.pc \in {"acquire_check", "acquire_insert"} /\ call'[t] = Idle) =>
                      \E now \in Times :
                          after = acquire(locks, a.path, a.client_id, a.lock_type, now)
                /\ (a.pc \in {"release_check", "release_remove"} /\ call'[t] = Idle) =>
                      after = release(locks, a.path, a.client_id)
                /\ (a.pc = "release_all_remove" /\ call'[t] = Idle) =>
                      \E order \in Orderings(OwnedPaths(locks, a.client_id)) :
                          after = release_all_for_client(locks, a.client_id, order)
         ]_vars

\* a client is inside acquire on a path that another client has locked before it
W6_LateAcquirer ==
    \E t \in Tasks :
        /\ call[t].pc = "acquire_check"
        /\ \E l \in locks : l.path = call[t].path /\ l.client_id # call[t].client_id

\* C7: is_locked_by_other(p, c) never changes the lock table; it returns the
\* lock on p if and only if p is locked by a client other than c, and None when
\* p is unlocked or locked by c itself.
C7_Probe ==
    [][(ret' # ret /\ ret'.op = "is_locked_by_other") =>
        /\ locks' = locks
        /\ IF \E l \in locks : l.path = ret'.path /\ l.client_id # ret'.client_id
           THEN /\ ret'.value.tag = "Some"
                /\ ret'.value.lock \in locks
                /\ ret'.value.lock.path = ret'.path
           ELSE ret'.value = [tag |-> "None"]
    ]_vars

\* the probe of a path locked by the asking client itself has returned None
W7_OwnLockNotReported ==
    /\ ret.op = "is_locked_by_other"
    /\ ret.value.tag = "None"
    /\ \E l \in locks : l.path = ret.path /\ l.client_id = ret.client_id

\* ---- properties of the session handler (SpecWs) ----
\* select! has returned in handle_socket of s
TeardownBegun(s) == handler[s] \in {"release", "broadcast", "done"}

C9_NoLockOutlivesSession ==
    \A s \in Clients : handler[s] = "done" => \A l \in locks : l.client_id # s

\* C10: once the teardown of a session has begun, its reader takes up no further
\* request, its forwarder forwards no further event and its hub subscription
\* is gone.
C10_OtherTaskCancelled ==
    [][\A s \in Clients :
        TeardownBegun(s) =>
            /\ recv_task'[s].pc = "broadcast" => recv_task[s].pc = "broadcast"
            /\ ~(rx[s] \in 1..ChannelCapacity /\ rx'[s] = rx[s] - 1)
            /\ rx[s] = NoRx
    ]_vars

\* the position of handle_socket: the order of its statements
Phase(h) ==
    CASE h = "new" -> 0
      [] h = "subscribed" -> 1
      [] h = "select" -> 2
      [] h = "release" -> 3
      [] h = "broadcast" -> 4
      [] h = "done" -> 5

\* C11: the teardown of a session runs once, whichever task ended first: it
\* starts when one of the two tasks has ended, never goes back to an earlier
\* statement, releases every lock of the client in one step, then publishes
\* one FileUnlocked for each freed path and nothing else, and only then
\* removes the client id from the live-client set.
C11_TeardownOnce ==
    [][\A s \in Clients :
        LET owned == OwnedPaths(locks, s)
        IN /\ Phase(handler'[s]) \in {Phase(handler[s]), Phase(handler[s]) + 1}
           /\ (handler[s] = "select" /\ handler'[s] # "select") =>
                 send_task[s] = "end" \/ recv_task[s] = Ended
           /\ (handler[s] = "release" /\ handler'[s] # "release") =>
                 /\ locks' = {l \in locks : l.client_id # s}
                 /\ Range(released'[s]) = owned
                 /\ Len(released'[s]) = Cardinality(owned)
                 /\ buffer' = buffer /\ rx' = rx
           /\ released'[s] # released[s] =>
                 \/ handler[s] = "release" /\ handler'[s] = "broadcast"
                 \/ /\ handler[s] = "broadcast" /\ handler'[s] = "broadcast"
                    /\ released'[s] = Tail(released[s])
                    /\ Send(FileUnlocked(Head(released[s])))
                    /\ locks' = locks
           /\ (handler[s] = "broadcast" /\ handler'[s] # "broadcast") =>
                 /\ released[s] = << >>
                 /\ s \in clients
                 /\ clients' = clients \ {s}
                 /\ buffer' = buffer /\ rx' = rx /\ locks' = locks
           /\ (s \in clients /\ s \notin clients') => handler[s] = "broadcast"
           /\ handler[s] = "done" => released'[s] = << >>
    ]_vars

\* a session whose two tasks have both ended is torn down and deregistered, and
\* the FileUnlocked of its teardown is waiting for another subscriber
W11_TornDownBothEnded ==
    \E s \in Clients, o \in Clients :
        /\ s # o
        /\ handler[s] = "done"
        /\ s \notin clients
        /\ send_task[s] = "end"
        /\ recv_task[s] = Ended
        /\ rx[o] \in 1..ChannelCapacity
        /\ NextEvent(o).type = "FileUnlocked"
        /\ \A l \in locks : l.client_id # o

\* ---- properties of the hub (SpecHub) ----
\* a is b with some elements left out
RECURSIVE IsSubseq(_, _)
IsSubseq(a, b) ==
    IF a = << >> THEN TRUE
    ELSE IF b = << >> THEN FALSE
    ELSE IF Head(a) = Head(b) THEN IsSubseq(Tail(a), Tail(b))
    ELSE IsSubseq(a, Tail(b))

\* what the forwarder of s has written to the socket
Forwarded(s) == SelectSeq(sent[s], LAMBDA m : m.type # "Connected")

\* what has been published since s subscribed
PublishedSince(s) == SubSeq(published, since[s] + 1, Len(published))

C13_PublishNeverBlocks ==
    /\ [](Len(published) < MaxPublished => \A e \in HubEvents : ENABLED Publish(e))
    /\ [](\A o \in Clients :
            (send_task[o] = "run" /\ rx[o] \in 1..ChannelCapacity)
            => ENABLED (ForwardOk(o) /\ Sent(o, NextEvent(o))))
    /\ [][published' # published =>
            \E e \in HubEvents :
                /\ published' = Append(published, e)
                /\ \A s \in Clients :
                      /\ rx[s] = NoRx => rx'[s] = NoRx
                      /\ rx[s] \in 0..(ChannelCapacity - 1) =>
                            /\ rx'[s] = rx[s] + 1
                            /\ buffer'[Len(buffer')] = e
                      /\ rx[s] >= ChannelCapacity => rx'[s] = ChannelCapacity + 1
                /\ UNCHANGED <<handler, send_task, recv_task, sent>>
         ]_vars

\* one subscriber has fallen behind the buffer while another has been
\* forwarded everything published since it subscribed
W13_SlowAndFast ==
    \E s \in Clients, o \in Clients :
        /\ rx[s] > ChannelCapacity
        /\ send_task[s] = "run"
        /\ send_task[o] = "run"
        /\ Len(Forwarded(o)) >= 2
        /\ Forwarded(o) = PublishedSince(o)

\* ---- lag (SpecWs) ----
\* C14: a forwarder whose receiver has fallen behind the buffer keeps running
\* and keeps its subscription, its session is not torn down for it, and the
\* locks of its client stay in the table.
C14_LagNotFatal ==
    [][\A s \in Clients :
        (send_task[s] = "run" /\ rx[s] > ChannelCapacity /\ recv_task[s] = Running)
        => /\ send_task'[s] = "run"
           /\ rx'[s] # NoRx
    ]_vars

\* ---- properties of atomic_write (SpecFs) ----
\* what a read of p returns: nothing, or the data of the file
Read(p) == IF file[p].exists THEN [exists |-> TRUE, data |-> file[p].data] ELSE Absent

\* what a read returns when the file holds exactly the contents of writer w
Holds(w) == [exists |-> TRUE, data |-> Bytes(w)]

\* C15: once atomic_write(p, bytes) has returned Ok, and as long as no other
\* write to p has been under way since that call began, a read of p returns
\* exactly bytes.
C15_RoundTrip ==
    \A w \in Writers :
        (wcall[w].pc = "ok" /\ ~wcall[w].raced) => Read(wcall[w].path) = Holds(w)

\* a write that had the path to itself has returned Ok over the content an
\* earlier successful write had left there
W15_Replaced ==
    \E w \in Writers, u \in Writers :
        /\ u # w
        /\ wcall[w].pc = "ok"
        /\ ~wcall[w].raced
        /\ wcall[u].pc = "ok"
        /\ Read(wcall[w].path) = Holds(w)

\* the contents a read may return: no file, or the whole of what one write passed
Complete == {Absent} \cup {Holds(w) : w \in Writers}

\* C16: whatever the interleaving of atomic writes, two of them on the same
\* path included, a read of p returns what p held before a write or the whole
\* of what one write passed, never empty, truncated or mixed content.
C16_ReadsComplete ==
    \A p \in Paths : Read(p) \in Complete

\* C17: in whatever state the process stops, the file at the target path is
\* either absent or holds the whole of what one write passed, and that content
\* had been forced to stable storage before the rename made it visible.
C17_CrashSafe ==
    \A p \in Paths :
        file[p].exists => (file[p].synced /\ file[p].data \in {Bytes(w) : w \in Writers})

\* writer w takes a step of its call
FsSteps(w) == wcall'[w] # wcall[w] /\ InCall(wcall[w])

\* C18: a step of an atomic write that fails makes the call return the error
\* at once, with no further step of that call, and no step of a call other
\* than the rename of a successful one changes what the target path holds.
C18_FailureLeavesTarget ==
    [][\A w \in Writers :
        /\ (FsSteps(w) /\ wcall'[w].pc # "ok") => file' = file
        /\ wcall[w].pc = "err" => wcall'[w].pc \in {"err", "create"}
    ]_vars

\* ---- properties of the watcher (SpecWatch) ----
\* the event just handled passed the three filters; its first markdown path
PassedFilters(h) ==
    LET paths == SelectSeq(h.paths, IsMd)
    IN /\ paths # << >>
       /\ \A i \in 1..Len(paths) : ~IsTempName(paths[i]) /\ ~InSkippedDir(paths[i])
FirstMd(h) == SelectSeq(h.paths, IsMd)[1]

\* C19: for an event of kind Create, Modify or Remove that passes the filters,
\* nothing is broadcast if the table holds a marker for its path younger than
\* 2 s, however many such events came before; otherwise the message of its
\* kind is broadcast. Hence the event on a document that atomic_write began to
\* save less than 2 s earlier is not broadcast.
C19_SelfWriteSuppressed ==
    /\ (handled # NoEvent /\ handled.kind # "Access" /\ PassedFilters(handled)) =>
          LET key == normalize_path(FirstMd(handled))
          IN IF \E m \in saves : m.path = key /\ clock - m.at < SuppressSecs
             THEN handled.msg = NoMsg
             ELSE handled.msg = Classify(handled.kind, key)
    /\ \A f \in Documents :
          (/\ handled # NoEvent
           /\ handled.paths = <<Join(data_dir, f)>>
           /\ \E m \in saves : /\ m.path = fs_normalize_path(Join(data_dir, f))
                               /\ clock - m.at < SuppressSecs)
          => handled.msg = NoMsg

\* a directory of the path below the data directory is the archive or the
\* repository metadata
InsideSkippedDir(f) ==
    StartsWith(f, Str_archive \o <<Slash>>) \/ StartsWith(f, Str_git \o <<Slash>>)

\* C20: one event of kind Create, Modify or Remove on a markdown file below the
\* data directory that is in neither the archive nor the repository metadata,
\* with no marker registered, broadcasts exactly the message of its kind with
\* the file's path relative to the data directory.
C20_ExternalEditSurfaces ==
    \A f \in Files :
        (/\ handled # NoEvent
         /\ handled.kind \in {"Create", "Modify", "Remove"}
         /\ handled.paths = <<Join(data_dir, f)>>
         /\ IsMd(f)
         /\ ~InsideSkippedDir(f)
         /\ saves = {})
        => handled.msg = Classify(handled.kind, f)

\* the files the watcher must keep to itself: not markdown, a temp file of
\* atomic_write, or inside the archive or the repository metadata
Unwatched(f) == ~IsMd(f) \/ IsTempName(f) \/ InsideSkippedDir(f)

\* C21: a message the watcher broadcasts is FileCreated, FileModified or
\* FileDeleted for a path of the event that is a markdown file, is not a
\* dot-prefixed .tmp-suffixed temp file and is in neither the archive nor the
\* repository metadata; no message carries the path of a file of the other
\* kinds, so the temp file that atomic_write creates and renames is never
\* the subject of a message.
C21_FilteredNeverPublished ==
    (handled # NoEvent /\ handled.msg # NoMsg) =>
        /\ handled.msg.type \in {"FileCreated", "FileModified", "FileDeleted"}
        /\ \E i \in 1..Len(handled.paths) :
              LET p == handled.paths[i]
              IN /\ handled.msg.path = normalize_path(p)
                 /\ IsMd(p) /\ ~IsTempName(p) /\ ~InSkippedDir(p)
        /\ \A f \in Files :
              Unwatched(f) =>
                  handled.msg.path \notin {f, Join(data_dir, f), normalize_path(Join(data_dir, f))}

\* the rename that ends an atomic write (temp file to note) has been handled
\* as a Create event and FileCreated was broadcast for the note
W21_RenameOfTempReported ==
    /\ handled # NoEvent
    /\ handled.kind = "Create"
    /\ handled.paths = <<Join(data_dir, NoteTmp), Join(data_dir, NoteMd)>>
    /\ handled.msg = FileCreated(normalize_path(Join(data_dir, NoteMd)))

\* ---- startup without a watcher (SpecBoot) ----
\* the watcher's messages
WatcherMsgs == {"FileCreated", "FileModified", "FileDeleted"}

\* C22: when the data directory does not exist or the watch cannot be
\* registered, start_watcher returns its error with no consumer running, and
\* none is started later; main goes on to init_repo, the auto-commit task
\* and serving; no watcher message is ever handed to the hub; and the
\* started server accepts sessions, takes and publishes locks, forwards
\* events and answers version-control calls.
C22_WatcherFailureNotFatal ==
    /\ [][(main = "start_watcher" /\ main' # main) =>
            /\ main' = "init_repo"
            /\ ~root => watcher' \in WatcherFailed
            /\ watcher' \in WatcherFailed \cup {"running"}
            /\ UNCHANGED <<root, gitVars, locks, wsVars>>
         ]_vars
    /\ [][(watcher \in WatcherFailed) =>
            (/\ watcher' = watcher
             /\ handled' = NoEvent
             /\ \A i \in 1..Len(buffer') : buffer'[i].type \notin WatcherMsgs)
         ]_vars
    /\ [](watcher \in WatcherFailed =>
            /\ main = "init_repo" => ENABLED BootInitRepo
            /\ main = "start_auto_commit" => ENABLED StartAutoCommit
            /\ main = "serve" =>
                /\ auto_commit /\ ENABLED GetStatusRoute
                /\ \A s \in Clients :
                      /\ handler[s] = "new" => ENABLED (Connect(s) /\ UNCHANGED hubLog)
                      /\ handler[s] = "subscribed" => ENABLED (SendConnected(s) /\ UNCHANGED hubLog)
                      /\ recv_task[s] = Running =>
                            \A p \in FsPaths, w \in WireKinds :
                                ENABLED (RecvLockFile(s, p, w) /\ UNCHANGED hubLog)
                      /\ recv_task[s].pc = "broadcast" => ENABLED (RecvBroadcast(s) /\ UNCHANGED hubLog)
                      /\ (send_task[s] = "run" /\ rx[s] \in 1..ChannelCapacity) =>
                            ENABLED (ForwardOk(s) /\ UNCHANGED hubLog))

\* the server runs without a watcher on a data directory that was missing at
\* startup: a session holds a lock, its FileLocked is waiting for another
\* session, and a status call has been answered
W22_ServingWithoutWatcher ==
    /\ watcher = "Data directory does not exist"
    /\ main = "serve"
    /\ \E s \in Clients, o \in Clients :
          /\ s # o
          /\ \E l \in locks : l.client_id = s
          /\ rx[o] \in 1..ChannelCapacity
          /\ NextEvent(o).type = "FileLocked"
    /\ gret.op = "get_status"
    /\ gret.value.tag = "Ok"

\* ---- properties of the version-control layer (SpecGit) ----
\* the call that has just returned is a commit_all that followed another one
\* with no change to the data directory in between
SecondCommit == gret.op = "commit_all" /\ gret.prev # NoValue

\* no commit was created by the call that has just returned
HeadKept == repo.exists => Len(repo.commits) = gret.head

NothingToCommit ==
    /\ gret.op = "commit_all"
    /\ gret.value # GitFailed
    /\ repo.exists
    /\ repo.commits # << >>
    /\ Len(repo.commits) = gret.head
    /\ repo.index = HeadTree(repo)

\* the statuses with which the handlers of routes/git.rs answer an error
ErrorStatuses == {"BAD_REQUEST", "INTERNAL_SERVER_ERROR"}

\* C24: when the staged tree is identical to the parent commit's tree,
\* commit_all's result is not an error value, and the on-demand caller is
\* not answered with an error status.
C24_NoChangesNotAnError ==
    NothingToCommit =>
        /\ gret.value.tag # "Err"
        /\ gret.caller = "route" => gret.response.status \notin ErrorStatuses

\* the commits of the history made by init_repo
InitialCommits == {i \in 1..Len(repo.commits) : repo.commits[i].message = "Initial commit"}

\* C25: once a call of init_repo has returned Ok, however many calls came
\* before it, the data directory holds a repository whose history begins
\* with the one initial commit, and the default ignore file; and a call made
\* when the repository exists changes nothing.
C25_InitOnce ==
    /\ [](gret.op = "init_repo" /\ gret.value = OkUnit =>
            /\ repo.exists
            /\ repo.commits # << >>
            /\ InitialCommits = {1}
            /\ worktree[IgnoreFile] = DefaultIgnore)
    /\ [][(gret'.op = "init_repo" /\ repo.exists) =>
            (gret'.value = OkUnit /\ UNCHANGED <<worktree, repo, root>>)
         ]_vars

\* the paths whose content differs between HEAD's tree, the index and the
\* working directory (an ignored file that is not tracked does not count)
Changed ==
    {f \in GitFiles :
        /\ ~(HeadTree(repo)[f] = repo.index[f] /\ repo.index[f] = worktree[f])
        /\ ~(HeadTree(repo)[f] = Missing /\ repo.index[f] = Missing /\ Ignored(worktree, f))}

\* the state of the repository, and the state a RepoStatus reports
RepoState ==
    IF ~repo.exists THEN "NoRepo"
    ELSE IF repo.conflicts # {} THEN "Conflicted"
    ELSE IF Changed # {} THEN "Dirty"
    ELSE "Clean"
Reported(st) ==
    IF ~st.is_repo THEN "NoRepo" ELSE IF st.has_changes THEN "Dirty" ELSE "Clean"

\* C26: get_status changes neither the repository nor the working
\* directory; without a repository it returns Ok; and an Ok result reports
\* the state that applies (NoRepo, Conflicted, Dirty or Clean), listing each
\* changed path once with one of the classifications new, modified, deleted,
\* renamed.
C26_StatusReportsState ==
    /\ [][gret'.op = "get_status" =>
            /\ UNCHANGED <<worktree, repo, root>>
            /\ ~repo.exists => gret'.value.tag = "Ok"
         ]_vars
    /\ [](gret.op = "get_status" /\ gret.value.tag = "Ok" =>
            LET st == gret.value.status
            IN /\ Reported(st) = RepoState
               /\ st.is_repo =>
                     /\ {e.path : e \in st.files} = Changed \ repo.conflicts
                     /\ \A e1, e2 \in st.files : e1.path = e2.path => e1 = e2
                     /\ \A e \in st.files :
                           e.status \in {"new", "modified", "deleted", "renamed"})

\* ---- requests of a session (SpecWs) ----
\* something of the lock table, the hub or the reader of s changes
Effect(s) == locks' # locks \/ buffer' # buffer \/ rx' # rx \/ recv_task'[s] # recv_task[s]

\* the newest event of the hub
Newest(buf) == buf[Len(buf)]

\* C27: the reader of a session hands FileLocked{path, its client id, the
\* granted kind} to the hub exactly when its acquire has succeeded and
\* FileUnlocked{path} exactly when its release has succeeded, as its next
\* step after the call; a LockFile or UnlockFile that fails, or names an
\* unknown kind, changes neither the lock table nor the hub.
C27_PublishOnSuccessOnly ==
    /\ [][\A s \in Clients :
            /\ (recv_task[s] = Running /\ recv_task'[s].pc = "broadcast") =>
                  LET e == recv_task'[s].event
                  IN /\ buffer' = buffer /\ rx' = rx
                     /\ \/ /\ e.type = "FileLocked"
                           /\ e.client_id = s
                           /\ \A l \in locks : l.path = e.path => l.client_id = s
                           /\ \E l \in locks' : /\ l.path = e.path
                                                /\ l.client_id = s
                                                /\ LockTypeStr(l.lock_type) = e.lock_type
                           /\ Others(locks', e.path) = Others(locks, e.path)
                        \/ /\ e.type = "FileUnlocked"
                           /\ \E l \in locks : l.path = e.path /\ l.client_id = s
                           /\ locks' = Remove(locks, e.path)
            /\ (recv_task[s].pc = "broadcast" /\ recv_task'[s] # recv_task[s]) =>
                  /\ Send(recv_task[s].event)
                  /\ recv_task'[s] = Running
                  /\ locks' = locks
         ]_vars
    /\ [][(locks' # locks /\ handler' = handler) =>
            \E s \in Clients : recv_task[s] = Running /\ recv_task'[s].pc = "broadcast"
         ]_vars
    /\ [][(buffer' # buffer /\ released' = released /\ Len(buffer') > 0
              /\ \A s \in Clients : rx'[s] >= rx[s]) =>
            \E s \in Clients :
                /\ recv_task[s].pc = "broadcast"
                /\ recv_task'[s] = Running
                /\ Newest(buffer') = recv_task[s].event
         ]_vars
    /\ [](\A s \in Clients, p \in Paths :
            /\ \A w \in WireKinds :
                  (\/ ParseLockType(w) = {}
                   \/ \E l \in locks : l.path = p /\ l.client_id # s)
                  => ~ENABLED (RecvLockFile(s, p, w) /\ Effect(s))
            /\ (\A l \in locks : l.path = p => l.client_id # s)
                  => ~ENABLED (RecvUnlockFile(s, p) /\ Effect(s)))

\* FileLocked of a session is waiting for another session, and the first
\* session has since released the path and is about to publish FileUnlocked
W27_LockedThenUnlocked ==
    \E s \in Clients, o \in Clients, p \in Paths :
        /\ s # o
        /\ rx[o] \in 1..ChannelCapacity
        /\ NextEvent(o) = FileLocked(p, s, "editor")
        /\ recv_task[s] = [pc |-> "broadcast", event |-> FileUnlocked(p)]
        /\ \A l \in locks : l.path # p

\* ---- disconnect (SpecWsFair) ----
\* the reader of s has met a Close frame, a transport error or the end of the
\* stream: the peer is gone
Disconnected(s) == recv_task[s] = Ended

\* C28: once the peer of a session has closed the connection or the transport
\* has failed, the teardown eventually runs: the client id is eventually out of
\* the live-client set and the lock table eventually holds no lock of that
\* client.
C28_DisconnectReleases ==
    \A s \in Clients :
        Disconnected(s) ~> (s \notin clients /\ \A l \in locks : l.client_id # s)

\* ---- connect (SpecPeers) ----
\* C29: on connect the session's client id joins the live-client set, and
\* Connected{client id} goes to the session's own peer and nowhere else: the
\* handshake sends at most that one message, to no other session and not to the
\* hub; nothing published or buffered by the hub is a Connected; and a
\* Connected that a session has been sent is its first message and carries its
\* own client id.
C29_ConnectedToNewPeerOnly ==
    /\ [][\A s \in Clients :
            /\ (handler[s] = "new" /\ handler'[s] # "new") =>
                  s \in clients' /\ sent' = sent /\ buffer' = buffer
            /\ (handler[s] = "subscribed" /\ handler'[s] # "subscribed") =>
                  /\ s \in clients
                  /\ sent'[s] \in {sent[s], Append(sent[s], Connected(s))}
                  /\ \A o \in Clients \ {s} : sent'[o] = sent[o]
                  /\ buffer' = buffer /\ rx' = rx /\ published' = published
         ]_vars
    /\ [](/\ \A i \in 1..Len(published) : published[i].type # "Connected"
          /\ \A i \in 1..Len(buffer) : buffer[i].type # "Connected"
          /\ \A s \in Clients : \A i \in 1..Len(sent[s]) :
                sent[s][i].type = "Connected" => i = 1 /\ sent[s][i] = Connected(s))

\* both sessions have been sent their own Connected, and one of them has then
\* been forwarded the other's FileLocked
W29_EachGreetedAlone ==
    \E s \in Clients, o \in Clients :
        /\ s # o
        /\ sent[o] = <<Connected(o)>>
        /\ Len(sent[s]) = 2
        /\ sent[s][1] = Connected(s)
        /\ sent[s][2].type = "FileLocked" /\ sent[s][2].client_id = o

\* ---- misbehaving clients (SpecFrames) ----
\* text that is not JSON, JSON of no known message type or without a field of
\* its type, a LockFile with an unknown lock_type, and the frames that are not
\* text (a Close frame is the peer's disconnect and is not among them)
Misbehaving ==
    {Text(NotJson), Text(UnknownText), Text(NoKindText(1)), Text(LockFileText(1, "other")),
     Binary, Ping, Pong}

\* something of the lock manager, the hub or any session changes
Disturbed ==
    \/ locks' # locks
    \/ clients' # clients
    \/ buffer' # buffer \/ rx' # rx
    \/ handler' # handler
    \/ send_task' # send_task \/ recv_task' # recv_task
    \/ released' # released

\* C30: a reader takes every misbehaving frame and goes on: the step changes
\* neither the lock table nor the live-client set, publishes nothing to the
\* hub, leaves the sender's session running and leaves every other session as
\* it was.
C30_MisbehaviourIsLocal ==
    /\ [](\A s \in Clients, frame \in Misbehaving :
            recv_task[s] = Running =>
                /\ ENABLED Recv(s, frame)
                /\ ~ENABLED (Recv(s, frame) /\ Disturbed))
    /\ [][(inbound' # inbound /\ inbound'.frame \in Misbehaving) =>
            /\ ~Disturbed
            /\ recv_task[inbound'.client] = Running]_vars

\* a session has just sent a LockFile with an unknown kind for a path the other
\* session holds locked while an event waits to be forwarded to that other
\* session: the lock, the event and both sessions are in place
W30_BadKindIgnored ==
    \E s \in Clients, o \in Clients :
        /\ s # o
        /\ inbound = [client |-> s, frame |-> Text(LockFileText(1, "other"))]
        /\ recv_task[s] = Running /\ handler[s] = "select" /\ s \in clients
        /\ \E l \in locks : l.path = 1 /\ l.client_id = o
        /\ handler[o] = "select" /\ send_task[o] = "run"
        /\ rx[o] = 1 /\ NextEvent(o) = FileLocked(1, o, "editor")

\* ---- no history (SpecHub) ----
\* C31: the hub keeps no history. A receiver starts with nothing to read
\* whatever the channel retains for others; a session is never forwarded more
\* events than were published since it subscribed, and each of them is one of
\* those; a publication with no subscriber succeeds and leaves the channel as
\* it was; and the channel retains nothing that no subscriber has still to
\* read.
C31_NoHistory ==
    /\ [][\A s \in Clients :
            (rx[s] = NoRx /\ rx'[s] # NoRx) =>
                /\ rx'[s] = 0
                /\ since'[s] = Len(published)
                /\ buffer' = buffer /\ sent' = sent
         ]_vars
    /\ [][(published' # published /\ Subscribed(rx) = {}) =>
            buffer' = buffer /\ rx' = rx /\ sent' = sent
         ]_vars
    /\ [](\A s \in Clients :
            /\ Len(Forwarded(s)) <= Len(published) - since[s]
            /\ \A i \in 1..Len(Forwarded(s)) :
                  \E j \in (since[s] + 1)..Len(published) : published[j] = Forwarded(s)[i])
    /\ [](/\ Subscribed(rx) = {} => buffer = << >>
          /\ \A s \in Subscribed(rx) : Min(rx[s], ChannelCapacity) <= Len(buffer)
          /\ Len(buffer) > 0 => \E s \in Subscribed(rx) : Min(rx[s], ChannelCapacity) = Len(buffer)
          /\ (Len(published) < MaxPublished /\ Subscribed(rx) = {}) =>
                \A e \in HubEvents : ENABLED Publish(e))

\* a session subscribed after two events had been published, one of them with
\* no subscriber at all and one still retained for another session, and has
\* been forwarded exactly the one event published since
W31_LateSubscriber ==
    \E s \in Clients, o \in Clients :
        /\ s # o
        /\ since[o] = 1 /\ since[s] = 2
        /\ rx[o] >= 1
        /\ Len(published) = 3
        /\ Forwarded(s) = <<published[3]>>
        /\ published[3] # published[2]

\* ---- the marker of a write (SpecSave) ----
\* the key atomic_write registers for p, and its marker being in the table
MarkerKey(p) == fs_normalize_path(TargetPath(p))
Marked(p) == \E m \in saves : m.path = MarkerKey(p) /\ m.at <= clock

Remains(p) == IsMd(p) /\ ~IsTempName(p) /\ ~InSkippedDir(p)

\* C33: filtering and suppression are applied path by path: for an event of
\* kind Create, Modify or Remove, every path of the event that stays after the
\* filters and has no marker younger than 2 s is published with the message of
\* the event's kind, whatever the other paths of the event are.
C33_PerPath ==
    (handled # NoEvent /\ handled.kind \in {"Create", "Modify", "Remove"}) =>
        \A i \in 1..Len(handled.paths) :
            LET p == handled.paths[i]
                key == normalize_path(p)
            IN (Remains(p) /\ ~RecentlySaved(saves, key, clock))
               => handled.msg = Classify(handled.kind, key)

\* ---- the age of markers (SpecWatch) ----
\* C34: every access that changes the marker table, a registration as well as
\* a lookup, leaves no entry older than 5 s in it.
C34_PrunedOnAccess ==
    [][saves' # saves => \A m \in saves' : clock - m.at <= RetainSecs]_vars

\* ---- the path of a message (SpecWatch) ----
\* C35: a message the watcher broadcasts carries the path of a file of the
\* event relative to the data directory, with forward slashes and no leading
\* separator, wherever the data directory is.
C35_RelativePath ==
    (handled # NoEvent /\ handled.msg # NoMsg) =>
        /\ \E i \in 1..Len(handled.paths) : \E f \in Files :
              /\ handled.paths[i] = Join(data_dir, f)
              /\ handled.msg.path = f
        /\ ~StartsWith(handled.msg.path, <<Slash>>)
        /\ ~Contains(handled.msg.path, <<Backslash>>)

\* ---- the log (SpecLog) ----
\* the files of a tree, in subdirectories as well
Blobs(tree) == {f \in DOMAIN tree : tree[f] # Missing}

\* C36: every entry of a log reports, for a commit with a parent, the number
\* of files that differ from the first parent's tree, and for the root commit
\* the number of files in its whole tree, subdirectories included.
C36_FilesChanged ==
    (gret.op = "get_log" /\ gret.value.tag = "Ok") =>
        \A k \in 1..Len(gret.value.commits) :
            LET e == gret.value.commits[k]
                tree == repo.commits[e.id].tree
            IN e.files_changed =
                   IF e.id > 1
                   THEN Cardinality({f \in LogFiles : repo.commits[e.id - 1].tree[f] # tree[f]})
                   ELSE Cardinality(Blobs(tree))

\* ---- the auto-commit task (SpecGit) ----
\* C37: once spawned the auto-commit task never ends: whatever its last call
\* of commit_all returned (a commit, NoChanges, a missing repository, a git
\* failure), the task is still there and its next tick calls commit_all
\* again; it logs a warning for an error other than NoChanges and nothing for
\* NoChanges.
C37_AutoCommitGoesOn ==
    /\ [][auto_commit => auto_commit']_vars
    /\ [](auto_commit => ENABLED AutoCommit)
    /\ []((gret.op = "commit_all" /\ gret.caller = "auto") =>
            /\ auto_commit
            /\ gret.value = NoChanges => gret.log = "none"
            /\ gret.value \in {RepoMissing, GitFailed} => gret.log = "warn"
            /\ gret.value.tag = "Ok" => gret.log = "info")

\* the task has just been answered NoChanges, after a call that failed, and
\* after a commit: it has gone on past a failure and logs nothing now
W37_OnPastFailure ==
    /\ gret.op = "commit_all" /\ gret.caller = "auto"
    /\ gret.value = NoChanges /\ gret.log = "none"
    /\ gret.prev = GitFailed
    /\ repo.exists /\ Len(repo.commits) >= 1
    /\ auto_commit


\* ---- the order of lock events (SpecPeers) ----
\* no reader holds an event it has yet to broadcast and no teardown holds a
\* released path it has yet to announce
Quiescent ==
    /\ \A s \in Clients : recv_task[s].pc # "broadcast"
    /\ \A s \in Clients : handler[s] # "release" /\ released[s] = << >>

\* the places of the lock events about p in the record of the hub
LockEventsOf(p) ==
    {i \in 1..Len(published) :
        /\ published[i].type \in {"FileLocked", "FileUnlocked"}
        /\ published[i].path = p}

\* C38: once no session has a lock event left to publish, the last lock event
\* published for a path agrees with the lock table: FileLocked naming the
\* owner if the path is locked, FileUnlocked (or no event at all) if it is not.
C38_LastEventAgrees ==
    Quiescent =>
        \A p \in FsPaths :
            LET held == {l \in locks : l.path = p}
                idx == LockEventsOf(p)
            IN IF idx = {}
               THEN held = {}
               ELSE LET e == published[CHOOSE i \in idx : \A j \in idx : j <= i]
                    IN IF held = {}
                       THEN e.type = "FileUnlocked"
                       ELSE /\ e.type = "FileLocked"
                            /\ \E l \in held : l.client_id = e.client_id


\* ---- the two normalizations (SpecWatch) ----
\* C39: every marker atomic_write has registered for a file of the data
\* directory is stored under the key the watcher computes for an event on
\* that file: the two normalizations give the same string for the file's path.
C39_SameKey ==
    \A f \in Documents :
        LET path == Join(data_dir, f)
        IN (\E m \in saves : m.path = fs_normalize_path(path)) =>
              /\ fs_normalize_path(path) = normalize_path(path)
              /\ \E m \in saves : m.path = normalize_path(path)


\* ---- subscription and acknowledgment (SpecPeers) ----
\* the events the receiver of s still holds, oldest first
Unread(s) == SubSeq(buffer, Len(buffer) - rx[s] + 1, Len(buffer))

\* session s has been sent Connected as its first message
Acknowledged(s) == sent[s] # << >> /\ sent[s][1] = Connected(s)

\* C40: a session is subscribed before Connected is written to its socket and
\* before its tasks are spawned; Connected is written before anything else;
\* and from then on, while its forwarder runs and has not lagged, everything
\* published since the subscription has been forwarded, in order, or is still
\* held by its receiver: no published event is missed.
C40_NoGapAfterConnected ==
    /\ [][\A s \in Clients :
            (sent'[s] # sent[s] /\ Newest(sent'[s]).type = "Connected") =>
                /\ sent[s] = << >>
                /\ rx[s] # NoRx
                /\ send_task[s] = "none" /\ recv_task[s] = NotSpawned]_vars
    /\ [][\A s \in Clients :
            (send_task'[s] # send_task[s] \/ recv_task'[s] # recv_task[s]) =>
                rx[s] # NoRx \/ send_task[s] # "none"]_vars
    /\ [](\A s \in Clients :
            (Acknowledged(s) /\ send_task[s] = "run" /\ rx[s] \in 0..ChannelCapacity) =>
                Tail(sent[s]) \o Unread(s) = PublishedSince(s))
    /\ [](\A s \in Clients :
            Acknowledged(s) =>
                /\ Len(Tail(sent[s])) <= Len(PublishedSince(s))
                /\ Tail(sent[s]) = SubSeq(PublishedSince(s), 1, Len(sent[s]) - 1))

\* a session that subscribed after the first publication was sent Connected
\* and then, in order, the two events published since
W40_AllSinceForwarded ==
    \E s \in Clients :
        /\ since[s] >= 1
        /\ Len(PublishedSince(s)) >= 2
        /\ sent[s] = <<Connected(s)>> \o PublishedSince(s)
        /\ send_task[s] = "run"

====
